---- MODULE Spec2Model ----
(***************************************************************************)
(* A model of AgentBridge's tool-calling runtime.                          *)
(*                                                                         *)
(*   Spec          AgentBridgeEngine (createSession, registerPlugin, chat),*)
(*                 with ConversationManager, PluginRegistry.toLLMTools and *)
(*                 ActionExecutor.executeAll; chat calls do not overlap.   *)
(*   FairSpec      Spec, with the model backend answering every llm.chat   *)
(*                 call and every started tool execution settling.         *)
(*   ProviderSpec  OpenAIProvider.chat and its fallback ladder.            *)
(*   ExecutorSpec  ActionExecutor.execute, one call at a time.             *)
(*   OverlapSpec   The engine with chat calls that overlap.                *)
(*   RegistrySpec  PluginRegistry with names as strings, parseToolName,    *)
(*                 and the engine constructor's registration loop.         *)
(*   CodecSpec     PluginRegistry.parseToolName on names of a caller's.    *)
(*   CompactSpec   PluginRegistry.compactJsonSchema.                       *)
(*   SchemaSpec    Tool schemas of manifest actions: buildZodSchema,       *)
(*                 toLLMTools and the MCP server's parameter shapes.       *)
(*   SelectSpec    PluginRegistry.selectLLMTools.                          *)
(*   CompiledActionSpec  execute of an action compiled from a manifest.    *)
(*   RouteSpec     The web chat route's POST and its session store.        *)
(***************************************************************************)
EXTENDS Integers, Sequences, FiniteSets, TLC

(***************************************************************************)
(* Bounds of the model and constants of the program.                       *)
(***************************************************************************)

\* engine.ts:95  const maxIterations = 10
maxIterations == 10

\* llm.chat calls made over a whole run.  A turn is started only while the
\* budget still covers a whole turn, so no turn is cut short by the bound.
MaxModelCalls == 11

\* Model responses with tool calls that differ from DefaultToolResponse.
MaxVaried == 1

\* Tools handed to one OpenAIProvider.chat call.
MaxProviderTools == 3

\* Tool-call responses the backend gives over a run with overlapping chat
\* calls; past them it answers with text or fails.
MaxOverlapToolResponses == 2

\* The chat invocations of the engine that can be in progress at once.
Procs == {1, 2}

\* The invocation of a caller that awaits each chat call before the next.
Callers == {1}

\* The ids conversations.create() hands out, in this order.
SessionIds == {1, 2}

\* Plugins handed to the engine, each with the names of its actions.
\* "boom" is an action whose execute rejects with the value null.
PluginNames == {"files", "notes"}

ActionsOfPlugin(name) ==
    IF name = "files" THEN <<"run", "boom">> ELSE <<"list">>

\* config.maxToolsPerTurn as the callers set it.
MaxToolsChoices == {2}

UserInputs == {"hello"}

NoText == "<undefined>"

NoId == "<none>"

NothingToSay == "I have nothing to say."

StuckText == "I got stuck in a loop. Please try again."

NoResult == "<pending>"

(***************************************************************************)
(* Data: types.ts                                                          *)
(***************************************************************************)

ToolCall(id, plugin, action) ==
    [id |-> id, pluginName |-> plugin, actionName |-> action]

\* A Message; hasToolCalls tells an assistant message that carries the
\* toolCalls field from one that does not.
Message(role, content, toolCallId, hasToolCalls, toolCalls) ==
    [role |-> role, content |-> content, toolCallId |-> toolCallId,
     hasToolCalls |-> hasToolCalls, toolCalls |-> toolCalls]

\* An LLMResponse; hasToolCalls = FALSE is `toolCalls: undefined`.
LLMResponse(text, hasToolCalls, toolCalls) ==
    [text |-> text, hasToolCalls |-> hasToolCalls, toolCalls |-> toolCalls]

NoResponse == LLMResponse(NoText, FALSE, <<>>)

\* The tool-call response of a backend that asks for one tool per round.
DefaultToolResponse ==
    LLMResponse(NoText, TRUE, <<ToolCall("call_a", "files", "run")>>)

\* The other tool-call responses the backend may give: an action that
\* throws null, a plugin that is not registered (under another id), two
\* calls with equal ids, two calls of which the second throws null, two
\* calls with different ids and results, and text beside the calls.
ToolCallLists ==
    { <<ToolCall("call_a", "files", "boom")>>,
      <<ToolCall("call_b", "ghost", "run")>>,
      <<ToolCall("call_a", "files", "run"), ToolCall("call_a", "files", "run")>>,
      <<ToolCall("call_a", "files", "run"), ToolCall("call_b", "files", "boom")>>,
      <<ToolCall("call_b", "ghost", "run"), ToolCall("call_a", "files", "run")>> }

VariedToolResponses ==
    { LLMResponse(NoText, TRUE, l) : l \in ToolCallLists }
        \cup { LLMResponse("text", TRUE, DefaultToolResponse.toolCalls) }

\* Responses without tool calls: the field absent, or an empty list.
TextResponses ==
    { LLMResponse(NoText, FALSE, <<>>), LLMResponse("answer", FALSE, <<>>),
      LLMResponse("answer", TRUE, <<>>) }

VARIABLES
    plugins,       \* PluginRegistry.plugins: the registered names, in insertion order
    maxTools,      \* config.maxToolsPerTurn
    sessions,      \* ConversationManager.sessions: the ids stored
    messages,      \* session.messages of every session id
    pc,            \* where each chat invocation stands
    sid,           \* chat's sessionId
    iter,          \* chat's loop counter i
    tools,         \* chat's `tools`: the tool names handed to llm.chat
    response,      \* chat's `response`: the last LLMResponse received
    settled,       \* indexes of response.toolCalls whose execute has resolved, in that order
    result,        \* what chat returned
    failure,       \* why chat rejected
    nCalls,        \* llm.chat calls made by the current chat invocation
    nResponses,    \* responses llm.chat has resolved with in the current invocation
    nRounds,       \* rounds of tool execution joined by the current invocation
    nExecs,        \* ActionExecutor.execute calls started by the current invocation
    lenAtCall,     \* Len of the session history at the last llm.chat call
    modelCalls,    \* llm.chat calls made over the run
    varied         \* varied tool responses received over the run

engineVars ==
    <<plugins, maxTools, sessions, messages, pc, sid, iter, tools, response,
      settled, result, failure, nCalls, nResponses, nRounds, nExecs, lenAtCall,
      modelCalls, varied>>

VARIABLES
    pvPc,          \* OpenAIProvider.chat: idle, first, reduced, fallback, returned, thrown
    pvTools,       \* openaiTools of the call
    pvRequests,    \* the `tools` of every completions.create request sent, in order
    pvErrors,      \* the error every failed attempt ended with, in order
    pvResult       \* what the call returned or threw

providerVars == <<pvPc, pvTools, pvRequests, pvErrors, pvResult>>

VARIABLES
    exPc,          \* ActionExecutor.execute: idle, running, resolved, rejected
    exCall,        \* its toolCall
    exResult,      \* the ToolResult it resolved to
    exInvoked      \* the parameters action.execute was invoked with, in order

executorVars == <<exPc, exCall, exResult, exInvoked>>

VARIABLES
    rgPlugins,     \* PluginRegistry.plugins of a registry of its own: the values, in insertion order
    rgPending,     \* plugins of the register calls that await plugin.setup(), in call order
    rgSetups,      \* plugin.setup() invocations so far
    rgCalls,       \* register calls so far
    rgLast,        \* the last register call: its plugin and how its promise stands
    rgCtor,        \* the AgentBridgeEngine constructor over this registry: its config.plugins and outcome
    rgParsed       \* the last parseToolName call: the tool, where it came from, the outcome

registryVars == <<rgPlugins, rgPending, rgSetups, rgCalls, rgLast, rgCtor, rgParsed>>

VARIABLES
    fnCall         \* the last call of a function that keeps no state: its name, argument and outcome

functionVars == <<fnCall>>

VARIABLES
    acPc,          \* a compiled action's execute: idle, me, fetch, done
    acCall,        \* its manifest, action, params and credentials
    acRequests,    \* the requests handed to fetch, in order
    acResult       \* what execute resolved to, or that it rejected

actionVars == <<acPc, acCall, acRequests, acResult>>

VARIABLES
    wsSessions,    \* the web route's `sessions` Map, in insertion order: id and the engine session's messages
    wsIssued,      \* how many ids crypto.randomUUID() has given
    wsPc,          \* the POST in progress: idle, or chat while it awaits engine.chat
    wsReq,         \* the request in progress or last served, and the session it uses
    wsResponse     \* the last response sent

routeVars == <<wsSessions, wsIssued, wsPc, wsReq, wsResponse>>

\* What the steps of the engine, of the provider, of the executor, of the
\* registry and of the functions leave alone.
nonEngineVars == <<providerVars, executorVars, registryVars, functionVars, actionVars, routeVars>>

nonProviderVars == <<engineVars, executorVars, registryVars, functionVars, actionVars, routeVars>>

nonExecutorVars == <<engineVars, providerVars, registryVars, functionVars, actionVars, routeVars>>

nonRegistryVars == <<engineVars, providerVars, executorVars, functionVars, actionVars, routeVars>>

nonFunctionVars == <<engineVars, providerVars, executorVars, registryVars, actionVars, routeVars>>

nonActionVars ==
    <<engineVars, providerVars, executorVars, registryVars, functionVars, routeVars>>

nonRouteVars ==
    <<engineVars, providerVars, executorVars, registryVars, functionVars, actionVars>>

vars ==
    <<engineVars, providerVars, executorVars, registryVars, functionVars, actionVars,
      routeVars>>

(***************************************************************************)
(* PluginRegistry: plugin-registry.ts                                      *)
(***************************************************************************)

Has(seq, x) == \E i \in 1..Len(seq) : seq[i] = x

\* `${plugin.name}__${action.name}`
ToolName(plugin, action) == <<plugin, "__", action>>

RECURSIVE ToLLMToolsOf(_)
ToLLMToolsOf(ps) ==
    IF ps = <<>> THEN <<>>
    ELSE LET acts == ActionsOfPlugin(Head(ps))
         IN  [i \in 1..Len(acts) |-> ToolName(Head(ps), acts[i])]
                 \o ToLLMToolsOf(Tail(ps))

\* toLLMTools(): one tool per action of every registered plugin, in
\* registration order.
ToLLMTools == ToLLMToolsOf(plugins)

\* A lookup that stops at the plugin.
HasPluginOnly(plugin, action) == Has(plugins, plugin)

\* getAction(pluginName, actionName) finds an action.
HasAction(plugin, action) ==
    Has(plugins, plugin) /\ Has(ActionsOfPlugin(plugin), action)

(***************************************************************************)
(* ConversationManager: conversation.ts                                    *)
(***************************************************************************)

\* A manager that starts the list over instead of pushing.
AddMessageReset(msgs, s, m) == [msgs EXCEPT ![s] = <<m>>]

\* addMessage(sessionId, message): session.messages.push(message)
AddMessage(msgs, s, m) == [msgs EXCEPT ![s] = Append(@, m)]

RECURSIVE AddAll(_, _, _)
AddAll(msgs, s, ms) ==
    IF ms = <<>> THEN msgs ELSE AddAll(AddMessage(msgs, s, Head(ms)), s, Tail(ms))

(***************************************************************************)
(* ActionExecutor: action-executor.ts                                      *)
(***************************************************************************)

\* execute(toolCall) rejects instead of resolving when the action throws a
\* value without a `message` (null, undefined): the catch block reads
\* error.message.  Every other outcome is a ToolResult.
ExecuteRejects(tc) ==
    HasAction(tc.pluginName, tc.actionName) /\ tc.actionName = "boom"

\* JSON.stringify(tr.result) of the ToolResult execute resolves to.
ResultContent(tc) ==
    IF HasAction(tc.pluginName, tc.actionName)
    THEN "{success:true}"
    ELSE "{success:false,message:Unknown action}"

(***************************************************************************)
(* AgentBridgeEngine: engine.ts                                            *)
(***************************************************************************)

BuildSystemPrompt ==
    IF plugins = <<>> THEN "prompt; No plugins installed." ELSE "prompt; plugin list"

Active(p) == pc[p] \in {"awaitModel", "awaitTools"}

\* The tools chat hands to llm.chat.
ChatTools == ToLLMTools

\* Tool messages that carry no tool call id.
ToolMessagesNoId(tcs) ==
    [k \in 1..Len(tcs) |->
        Message("tool", "{success:true}", NoId, FALSE, <<>>)]

\* The tool-role messages chat appends for the results of executeAll, in
\* the order of the tool calls (Promise.all keeps it).
ToolMessages(tcs) ==
    [k \in 1..Len(tcs) |->
        Message("tool", ResultContent(tcs[k]), tcs[k].id, FALSE, <<>>)]

\* A fallback of the empty string for an absent text.
AnswerTextBlank(r) == IF r.text = NoText THEN "" ELSE r.text

\* What chat returns for a response without tool calls.
AnswerText(r) == IF r.text = NoText THEN NothingToSay ELSE r.text

\* The content of the assistant message that carries tool calls.
ToolCallContent(r) == IF r.text = NoText THEN "" ELSE r.text

\* A loop that tests i <= maxIterations.
LoopBoundInclusive == maxIterations + 1

\* The loop bound of chat.
LoopBound == maxIterations

EngineInit ==
    /\ plugins = <<"files">>
    /\ maxTools \in MaxToolsChoices
    /\ sessions = {}
    /\ messages = [s \in SessionIds |-> <<>>]
    /\ pc = [p \in Procs |-> "idle"]
    /\ sid = [p \in Procs |-> 1]
    /\ iter = [p \in Procs |-> 0]
    /\ tools = [p \in Procs |-> <<>>]
    /\ response = [p \in Procs |-> NoResponse]
    /\ settled = [p \in Procs |-> <<>>]
    /\ result = [p \in Procs |-> NoResult]
    /\ failure = [p \in Procs |-> "none"]
    /\ nCalls = [p \in Procs |-> 0]
    /\ nResponses = [p \in Procs |-> 0]
    /\ nRounds = [p \in Procs |-> 0]
    /\ nExecs = [p \in Procs |-> 0]
    /\ lenAtCall = [p \in Procs |-> 0]
    /\ modelCalls = 0
    /\ varied = 0

\* registerPlugin(plugin) for a plugin without a setup hook.
RegisterPlugin(name) ==
    /\ modelCalls = 0
    /\ ~Has(plugins, name)
    /\ plugins' = Append(plugins, name)
    /\ UNCHANGED <<maxTools, sessions, messages, pc, sid, iter, tools, response,
                   settled, result, failure, nCalls, nResponses, nRounds, nExecs,
                   lenAtCall, modelCalls, varied>>

\* createSession(): conversations.create() and the system message.
CreateSession ==
    /\ Cardinality(sessions) < Cardinality(SessionIds)
    /\ LET s == Cardinality(sessions) + 1
       IN  /\ sessions' = sessions \cup {s}
           /\ messages' = AddMessage(messages, s,
                              Message("system", BuildSystemPrompt, NoId, FALSE, <<>>))
    /\ UNCHANGED <<plugins, maxTools, pc, sid, iter, tools, response, settled,
                   result, failure, nCalls, nResponses, nRounds, nExecs, lenAtCall,
                   modelCalls, varied>>

\* chat(sessionId, userMessage) on an unknown session: throws at once.
ChatUnknownSession(p, s) ==
    /\ ~Active(p)
    /\ s \notin sessions
    /\ pc' = [pc EXCEPT ![p] = "thrown"]
    /\ sid' = [sid EXCEPT ![p] = s]
    /\ failure' = [failure EXCEPT ![p] = "Session not found"]
    /\ result' = [result EXCEPT ![p] = NoResult]
    /\ iter' = [iter EXCEPT ![p] = 0]
    /\ tools' = [tools EXCEPT ![p] = <<>>]
    /\ response' = [response EXCEPT ![p] = NoResponse]
    /\ settled' = [settled EXCEPT ![p] = <<>>]
    /\ nCalls' = [nCalls EXCEPT ![p] = 0]
    /\ nResponses' = [nResponses EXCEPT ![p] = 0]
    /\ nRounds' = [nRounds EXCEPT ![p] = 0]
    /\ nExecs' = [nExecs EXCEPT ![p] = 0]
    /\ lenAtCall' = [lenAtCall EXCEPT ![p] = 0]
    /\ UNCHANGED <<plugins, maxTools, sessions, messages, modelCalls, varied>>

\* chat(sessionId, userMessage) up to its first await: the user message is
\* appended, the tools are computed and llm.chat is called for i = 0.
ChatStart(p, s, input) ==
    /\ ~Active(p)
    /\ s \in sessions
    /\ modelCalls + maxIterations <= MaxModelCalls
    /\ messages' = AddMessage(messages, s, Message("user", input, NoId, FALSE, <<>>))
    /\ pc' = [pc EXCEPT ![p] = IF 0 < LoopBound THEN "awaitModel" ELSE "returned"]
    /\ sid' = [sid EXCEPT ![p] = s]
    /\ iter' = [iter EXCEPT ![p] = 0]
    /\ tools' = [tools EXCEPT ![p] = ChatTools]
    /\ response' = [response EXCEPT ![p] = NoResponse]
    /\ settled' = [settled EXCEPT ![p] = <<>>]
    /\ result' = [result EXCEPT ![p] = IF 0 < LoopBound THEN NoResult ELSE StuckText]
    /\ failure' = [failure EXCEPT ![p] = "none"]
    /\ nCalls' = [nCalls EXCEPT ![p] = IF 0 < LoopBound THEN 1 ELSE 0]
    /\ nResponses' = [nResponses EXCEPT ![p] = 0]
    /\ nRounds' = [nRounds EXCEPT ![p] = 0]
    /\ nExecs' = [nExecs EXCEPT ![p] = 0]
    /\ lenAtCall' = [lenAtCall EXCEPT ![p] = Len(messages'[s])]
    /\ modelCalls' = modelCalls + 1
    /\ UNCHANGED <<plugins, maxTools, sessions, varied>>

\* llm.chat resolves with a response that has no tool calls: the assistant
\* text is appended and returned.
ModelAnswers(p, r) ==
    /\ pc[p] = "awaitModel"
    /\ ~r.hasToolCalls \/ Len(r.toolCalls) = 0
    /\ response' = [response EXCEPT ![p] = r]
    /\ messages' = AddMessage(messages, sid[p],
                       Message("assistant", AnswerText(r), NoId, FALSE, <<>>))
    /\ result' = [result EXCEPT ![p] = AnswerText(r)]
    /\ pc' = [pc EXCEPT ![p] = "returned"]
    /\ nResponses' = [nResponses EXCEPT ![p] = @ + 1]
    /\ UNCHANGED <<plugins, maxTools, sessions, sid, iter, tools, settled, failure,
                   nCalls, nRounds, nExecs, lenAtCall, modelCalls, varied>>

\* llm.chat resolves with tool calls: the assistant message is appended and
\* executeAll starts execute for every tool call.
ModelCallsTools(p, r) ==
    /\ pc[p] = "awaitModel"
    /\ r.hasToolCalls /\ Len(r.toolCalls) > 0
    /\ response' = [response EXCEPT ![p] = r]
    /\ messages' = AddMessage(messages, sid[p],
                       Message("assistant", ToolCallContent(r), NoId, TRUE, r.toolCalls))
    /\ settled' = [settled EXCEPT ![p] = <<>>]
    /\ nExecs' = [nExecs EXCEPT ![p] = @ + Len(r.toolCalls)]
    /\ pc' = [pc EXCEPT ![p] = "awaitTools"]
    /\ varied' = IF r = DefaultToolResponse THEN varied ELSE varied + 1
    /\ nResponses' = [nResponses EXCEPT ![p] = @ + 1]
    /\ UNCHANGED <<plugins, maxTools, sessions, sid, iter, tools, result, failure,
                   nCalls, nRounds, lenAtCall, modelCalls>>

\* A chat that takes back the last message of the session when llm.chat
\* rejects.
ModelThrowsRollingBack(p) ==
    /\ pc[p] = "awaitModel"
    /\ pc' = [pc EXCEPT ![p] = "thrown"]
    /\ failure' = [failure EXCEPT ![p] = "llm.chat threw"]
    /\ messages' = [messages EXCEPT ![sid[p]] = SubSeq(@, 1, Len(@) - 1)]
    /\ UNCHANGED <<plugins, maxTools, sessions, sid, iter, tools, response,
                   settled, result, nCalls, nResponses, nRounds, nExecs, lenAtCall,
                   modelCalls, varied>>

\* llm.chat rejects: chat rejects with the same error.
ModelThrows(p) ==
    /\ pc[p] = "awaitModel"
    /\ pc' = [pc EXCEPT ![p] = "thrown"]
    /\ failure' = [failure EXCEPT ![p] = "llm.chat threw"]
    /\ UNCHANGED <<plugins, maxTools, sessions, messages, sid, iter, tools, response,
                   settled, result, nCalls, nResponses, nRounds, nExecs, lenAtCall,
                   modelCalls, varied>>

\* A loop end that appends the stuck text as an assistant message.
AfterExecuteAllAppendingStuck(p) ==
    LET tcs == response[p].toolCalls
        s == sid[p]
        more == iter[p] + 1 < LoopBound
    IN  /\ messages' = AddAll(messages, s,
                           IF more THEN ToolMessages(tcs)
                           ELSE Append(ToolMessages(tcs),
                                       Message("assistant", StuckText, NoId, FALSE, <<>>)))
        /\ iter' = [iter EXCEPT ![p] = @ + 1]
        /\ nRounds' = [nRounds EXCEPT ![p] = @ + 1]
        /\ pc' = [pc EXCEPT ![p] = IF more THEN "awaitModel" ELSE "returned"]
        /\ result' = [result EXCEPT ![p] = IF more THEN NoResult ELSE StuckText]
        /\ nCalls' = [nCalls EXCEPT ![p] = IF more THEN @ + 1 ELSE @]
        /\ modelCalls' = IF more THEN modelCalls + 1 ELSE modelCalls
        /\ lenAtCall' = [lenAtCall EXCEPT ![p] = IF more THEN Len(messages'[s]) ELSE @]

\* The rest of the loop body once Promise.all has resolved: the tool
\* messages are appended, and either llm.chat is called for the next i or
\* the loop ends and the stuck text is returned.
AfterExecuteAll(p) ==
    LET tcs == response[p].toolCalls
        s == sid[p]
        more == iter[p] + 1 < LoopBound
    IN  /\ messages' = AddAll(messages, s, ToolMessages(tcs))
        /\ iter' = [iter EXCEPT ![p] = @ + 1]
        /\ nRounds' = [nRounds EXCEPT ![p] = @ + 1]
        /\ pc' = [pc EXCEPT ![p] = IF more THEN "awaitModel" ELSE "returned"]
        /\ result' = [result EXCEPT ![p] = IF more THEN NoResult ELSE StuckText]
        /\ nCalls' = [nCalls EXCEPT ![p] = IF more THEN @ + 1 ELSE @]
        /\ modelCalls' = IF more THEN modelCalls + 1 ELSE modelCalls
        /\ lenAtCall' = [lenAtCall EXCEPT ![p] = IF more THEN Len(messages'[s]) ELSE @]

\* A join that the first result ends.
JoinedOnFirst(done, tcs) == Len(done) >= 1

\* Promise.all resolves once every execute of the round has resolved.
Joined(done, tcs) == Len(done) = Len(tcs)

\* One execute of the round resolves; the last one to resolve resumes chat.
ToolResolves(p, k) ==
    /\ pc[p] = "awaitTools"
    /\ k \in 1..Len(response[p].toolCalls)
    /\ ~Has(settled[p], k)
    /\ ~ExecuteRejects(response[p].toolCalls[k])
    /\ settled' = [settled EXCEPT ![p] = Append(@, k)]
    /\ IF Joined(settled'[p], response[p].toolCalls)
       THEN AfterExecuteAll(p)
       ELSE UNCHANGED <<messages, iter, nRounds, pc, result, nCalls, modelCalls,
                        lenAtCall>>
    /\ UNCHANGED <<plugins, maxTools, sessions, sid, tools, response, failure,
                   nResponses, nExecs, varied>>

\* One execute of the round rejects: Promise.all rejects and so does chat.
ToolRejects(p, k) ==
    /\ pc[p] = "awaitTools"
    /\ k \in 1..Len(response[p].toolCalls)
    /\ ~Has(settled[p], k)
    /\ ExecuteRejects(response[p].toolCalls[k])
    /\ pc' = [pc EXCEPT ![p] = "thrown"]
    /\ failure' = [failure EXCEPT ![p] = "executeAll rejected"]
    /\ UNCHANGED <<plugins, maxTools, sessions, messages, sid, iter, tools, response,
                   settled, result, nCalls, nResponses, nRounds, nExecs, lenAtCall,
                   modelCalls, varied>>

(***************************************************************************)
(* OpenAIProvider: openai.ts (the provider with the fallback ladder)       *)
(***************************************************************************)

\* err.status when it is no number: a transport error, or parseResponse
\* throwing on the first response.
NoStatus == 0

Statuses == {400, 401, 413, 429, 500, NoStatus}

\* What an attempt can fail with: err.status and what err.message says.
ProviderErrors == [status : Statuses, message : {"plain", "no body"}]

ToolLists == { [i \in 1..n |-> i] : n \in 0..MaxProviderTools }

Max(a, b) == IF a >= b THEN a ELSE b

\* Halving without the floor of one tool.
ReducedCountUnclamped(n) == n \div 2

\* Math.max(1, Math.floor(openaiTools.length / 2))
ReducedCount(n) == Max(1, n \div 2)

\* openaiTools.slice(0, ReducedCount): slice stops at the end of the array.
ReducedTools(ts) ==
    SubSeq(ts, 1, IF ReducedCount(Len(ts)) <= Len(ts)
                  THEN ReducedCount(Len(ts)) ELSE Len(ts))

\* A retry that does not ask whether tools were sent.
RetryOnStatusAlone(ts, err) == err.status = 400 \/ err.status = 413

\* if (openaiTools.length > 0 && (status === 400 || status === 413))
RetryWithFewerTools(ts, err) ==
    Len(ts) > 0 /\ (err.status = 400 \/ err.status = 413)

\* if (status === 413 || status === 400 || msg.includes('Failed to') ||
\*     msg.includes('no body'))
RetryWithoutTools(err) ==
    err.status = 413 \/ err.status = 400 \/ err.message = "no body"

\* A wrapped error that copies err.status, whatever it is.
EnrichKeepsRawStatus(err) ==
    [kind |-> "error", attempt |-> 0, status |-> err.status, detail |-> "raw message"]

\* enrichProviderError(err): the status and the detail of the wrapped error.
EnrichProviderError(err) ==
    LET status == IF err.status = NoStatus THEN 500 ELSE err.status
    IN  [kind |-> "error",
         attempt |-> 0,
         status |-> status,
         detail |-> IF status = 429 THEN "rate limit/quota exceeded (429)"
                    ELSE IF status = 401 THEN "authentication failed (401)"
                    ELSE IF status = 400 /\ err.message = "no body"
                         THEN "rejected the request (400)"
                    ELSE "raw message"]

\* this.parseResponse(response) of the attempt that succeeded.
ParsedResponse(attempt) ==
    [kind |-> "response", attempt |-> attempt, status |-> 200, detail |-> "parsed"]

NoProviderResult == [kind |-> "none", attempt |-> 0, status |-> 0, detail |-> ""]

ProviderInit ==
    /\ pvPc = "idle"
    /\ pvTools = <<>>
    /\ pvRequests = <<>>
    /\ pvErrors = <<>>
    /\ pvResult = NoProviderResult

\* chat(messages, tools) up to the first await: the first request carries
\* every tool (`undefined` for an empty list).
ProviderChat(ts) ==
    /\ pvPc \in {"idle", "returned", "thrown"}
    /\ pvPc' = "first"
    /\ pvTools' = ts
    /\ pvRequests' = <<ts>>
    /\ pvErrors' = <<>>
    /\ pvResult' = NoProviderResult

\* The first request succeeds and its response parses.
FirstAttemptSucceeds ==
    /\ pvPc = "first"
    /\ pvPc' = "returned"
    /\ pvResult' = ParsedResponse(1)
    /\ UNCHANGED <<pvTools, pvRequests, pvErrors>>

\* The first attempt fails with err: the reduced request is sent, or the
\* enriched error is thrown.
FirstAttemptFails(err) ==
    /\ pvPc = "first"
    /\ pvErrors' = Append(pvErrors, err)
    /\ IF RetryWithFewerTools(pvTools, err)
       THEN /\ pvPc' = "reduced"
            /\ pvRequests' = Append(pvRequests, ReducedTools(pvTools))
            /\ UNCHANGED pvResult
       ELSE /\ pvPc' = "thrown"
            /\ pvResult' = EnrichProviderError(err)
            /\ UNCHANGED pvRequests
    /\ UNCHANGED pvTools

\* The reduced request succeeds and its response parses.
ReducedAttemptSucceeds ==
    /\ pvPc = "reduced"
    /\ pvPc' = "returned"
    /\ pvResult' = ParsedResponse(2)
    /\ UNCHANGED <<pvTools, pvRequests, pvErrors>>

\* The reduced attempt fails: `catch {}` drops its error; the request
\* without tools is sent if the first error allows it.
ReducedAttemptFails(err) ==
    /\ pvPc = "reduced"
    /\ pvErrors' = Append(pvErrors, err)
    /\ IF RetryWithoutTools(pvErrors[1])
       THEN /\ pvPc' = "fallback"
            /\ pvRequests' = Append(pvRequests, <<>>)
            /\ UNCHANGED pvResult
       ELSE /\ pvPc' = "thrown"
            /\ pvResult' = EnrichProviderError(pvErrors[1])
            /\ UNCHANGED pvRequests
    /\ UNCHANGED pvTools

\* The request without tools succeeds and its response parses.
FallbackSucceeds ==
    /\ pvPc = "fallback"
    /\ pvPc' = "returned"
    /\ pvResult' = ParsedResponse(3)
    /\ UNCHANGED <<pvTools, pvRequests, pvErrors>>

\* The request without tools fails: `catch {}` drops its error and the
\* first error is enriched and thrown.
FallbackFails(err) ==
    /\ pvPc = "fallback"
    /\ pvErrors' = Append(pvErrors, err)
    /\ pvPc' = "thrown"
    /\ pvResult' = EnrichProviderError(pvErrors[1])
    /\ UNCHANGED <<pvTools, pvRequests>>

ProviderNext ==
    \/ \E ts \in ToolLists : ProviderChat(ts) /\ UNCHANGED nonProviderVars
    \/ FirstAttemptSucceeds /\ UNCHANGED nonProviderVars
    \/ \E err \in ProviderErrors : FirstAttemptFails(err) /\ UNCHANGED nonProviderVars
    \/ ReducedAttemptSucceeds /\ UNCHANGED nonProviderVars
    \/ \E err \in ProviderErrors : ReducedAttemptFails(err) /\ UNCHANGED nonProviderVars
    \/ FallbackSucceeds /\ UNCHANGED nonProviderVars
    \/ \E err \in ProviderErrors : FallbackFails(err) /\ UNCHANGED nonProviderVars

(***************************************************************************)
(* ActionExecutor.execute, one call at a time: action-executor.ts          *)
(***************************************************************************)

\* A name parseResponse left undefined: the tool name the model emitted has
\* no "__", so split gives one element.
UndefinedName == "<undefined name>"

\* The tool calls handed to execute.  parameters is "valid" when the
\* action's schema accepts it.
ExecutorCalls ==
    [id : {"call_a", "call_b"},
     pluginName : {"files", "notes", "ghost", UndefinedName},
     actionName : {"run", "list", UndefinedName},
     parameters : {"valid", "invalid"}]

\* What an action's execute can throw or reject with.
ThrownValues == {"Error", "string", "null", "undefined"}

NoToolResult == [toolCallId |-> NoId, success |-> FALSE, message |-> "<none>"]

\* A schema check that lets everything through.
ParametersAlwaysParse(tc) == TRUE

\* action.parameters.safeParse(toolCall.parameters).success
ParametersParse(tc) == tc.parameters = "valid"

\* The ToolResult for a call the registry has no action for.
UnknownActionResult(tc) ==
    [toolCallId |-> tc.id, success |-> FALSE, message |-> "Unknown action: "]

\* The ToolResult for parameters the schema refuses.
InvalidParametersResult(tc) ==
    [toolCallId |-> tc.id, success |-> FALSE, message |-> "Invalid parameters: "]

\* `error.message` in the catch block throws a TypeError when error is
\* null or undefined.
ReadingMessageThrows(v) == v \in {"null", "undefined"}

\* The ToolResult of the catch block: `Action failed: ${error.message}`.
ActionFailedResult(tc, v) ==
    [toolCallId |-> tc.id, success |-> FALSE, message |-> "Action failed: "]

ExecutorInit ==
    /\ exPc = "idle"
    /\ exCall = [id |-> NoId, pluginName |-> UndefinedName,
                 actionName |-> UndefinedName, parameters |-> "valid"]
    /\ exResult = NoToolResult
    /\ exInvoked = <<>>

\* execute(toolCall) up to its first await: the lookup, the schema check
\* and the call of action.execute.
Execute(tc) ==
    /\ exPc \in {"idle", "resolved", "rejected"}
    /\ exCall' = tc
    /\ IF ~HasAction(tc.pluginName, tc.actionName)
       THEN /\ exPc' = "resolved"
            /\ exResult' = UnknownActionResult(tc)
            /\ exInvoked' = <<>>
       ELSE IF ~ParametersParse(tc)
       THEN /\ exPc' = "resolved"
            /\ exResult' = InvalidParametersResult(tc)
            /\ exInvoked' = <<>>
       ELSE /\ exPc' = "running"
            /\ exResult' = NoToolResult
            /\ exInvoked' = <<tc.parameters>>

\* action.execute resolves with an ActionResult.
ActionReturns(ok) ==
    /\ exPc = "running"
    /\ exPc' = "resolved"
    /\ exResult' = [toolCallId |-> exCall.id, success |-> ok, message |-> "result"]
    /\ UNCHANGED <<exCall, exInvoked>>

\* action.execute throws, or rejects with, the value v.
ActionThrows(v) ==
    /\ exPc = "running"
    /\ IF ReadingMessageThrows(v)
       THEN /\ exPc' = "rejected"
            /\ UNCHANGED exResult
       ELSE /\ exPc' = "resolved"
            /\ exResult' = ActionFailedResult(exCall, v)
    /\ UNCHANGED <<exCall, exInvoked>>

ExecutorNext ==
    \/ \E n \in PluginNames : RegisterPlugin(n) /\ UNCHANGED nonEngineVars
    \/ \E tc \in ExecutorCalls : Execute(tc) /\ UNCHANGED nonExecutorVars
    \/ \E ok \in BOOLEAN : ActionReturns(ok) /\ UNCHANGED nonExecutorVars
    \/ \E v \in ThrownValues : ActionThrows(v) /\ UNCHANGED nonExecutorVars

(***************************************************************************)
(* PluginRegistry with names as strings: plugin-registry.ts                *)
(***************************************************************************)

\* register calls made over a run.
MaxRegisterCalls == 3

\* Names are strings, here sequences of characters.
Sep == <<"_", "_">>

\* The plugins handed to register.  register takes any name: names with
\* "__" or "_" at an end, action names that repeat, and two plugins with one
\* name (the second with a setup hook) are among them.
PluginObjects ==
    { [name |-> <<"a">>, actions |-> << <<"c">>, <<"d">> >>, setup |-> FALSE],
      [name |-> <<"a">>, actions |-> << <<"b", "_", "_", "c">> >>, setup |-> TRUE],
      [name |-> <<"a", "_", "_", "b">>, actions |-> << <<"c">> >>, setup |-> FALSE],
      [name |-> <<"b", "_">>, actions |-> << <<"_", "c">> >>, setup |-> FALSE],
      [name |-> <<"e">>, actions |-> << <<"x">>, <<"x">> >>, setup |-> TRUE] }

\* config.plugins of the engine constructed over the registry.
ConfigPluginLists ==
    { <<>> } \cup { <<x>> : x \in PluginObjects }
        \cup { <<x, y>> : x \in { o \in PluginObjects : o.name = <<"a">> },
                          y \in { o \in PluginObjects : o.name \in { <<"a">>, <<"e">> } } }

\* `${plugin.name}__${action.name}`
EncodeToolName(pluginName, actionName) == pluginName \o Sep \o actionName

\* str.split('__'): the pieces between the occurrences of "__", found from
\* the left and not overlapping.
RECURSIVE SplitAcc(_, _, _)
SplitAcc(rest, cur, acc) ==
    IF rest = <<>> THEN Append(acc, cur)
    ELSE IF Len(rest) >= 2 /\ SubSeq(rest, 1, 2) = Sep
         THEN SplitAcc(SubSeq(rest, 3, Len(rest)), <<>>, Append(acc, cur))
         ELSE SplitAcc(Tail(rest), Append(cur, Head(rest)), acc)

Split(str) == SplitAcc(str, <<>>, <<>>)

\* A decoder that only asks for two pieces.
ParseToolNameLenient(toolName) ==
    LET parts == Split(toolName)
    IN  IF Len(parts) < 2
        THEN [kind |-> "throws", pluginName |-> <<>>, actionName |-> <<>>]
        ELSE [kind |-> "parsed", pluginName |-> parts[1], actionName |-> parts[2]]

\* parseToolName(toolName): the first two pieces of the split; it throws
\* when one of them is missing or empty.
ParseToolName(toolName) ==
    LET parts == Split(toolName)
    IN  IF Len(parts) < 2 \/ parts[1] = <<>> \/ parts[2] = <<>>
        THEN [kind |-> "throws", pluginName |-> <<>>, actionName |-> <<>>]
        ELSE [kind |-> "parsed", pluginName |-> parts[1], actionName |-> parts[2]]

\* this.plugins.has(name)
RgHas(ps, name) == \E i \in 1..Len(ps) : ps[i].name = name

\* this.plugins.set(plugin.name, plugin): a Map keeps the place of a key it
\* already holds and replaces its value.
RgSet(ps, pl) ==
    IF RgHas(ps, pl.name)
    THEN [i \in 1..Len(ps) |-> IF ps[i].name = pl.name THEN pl ELSE ps[i]]
    ELSE Append(ps, pl)

\* this.plugins.delete(name)
RgDelete(ps, name) == SelectSeq(ps, LAMBDA x : x.name # name)

\* toLLMTools() of a registry holding ps: one tool per action of every
\* plugin, in Map order; plugin and action say which action a tool was
\* made from.
RECURSIVE RgToLLMTools(_)
RgToLLMTools(ps) ==
    IF ps = <<>> THEN <<>>
    ELSE LET pl == Head(ps)
         IN  [i \in 1..Len(pl.actions) |->
                 [name |-> EncodeToolName(pl.name, pl.actions[i]),
                  plugin |-> pl.name, action |-> pl.actions[i]]]
                 \o RgToLLMTools(Tail(ps))

\* getAllPlugins()
GetAllPlugins == rgPlugins

NoPlugin == [name |-> <<>>, actions |-> <<>>, setup |-> FALSE]

NoRegisterCall == [plugin |-> NoPlugin, outcome |-> "none", error |-> <<>>]

\* A register that does not look for the name.
RegisterUnchecked(st, pl) ==
    [st EXCEPT !.plugins = RgSet(@, pl), !.calls = @ + 1,
               !.last = [plugin |-> pl, outcome |-> "resolved", error |-> <<>>]]

\* A register that sets the plugin before it awaits the setup hook.
RegisterSetsBeforeSetup(st, pl) ==
    IF RgHas(st.plugins, pl.name)
    THEN [st EXCEPT !.calls = @ + 1,
                    !.last = [plugin |-> pl, outcome |-> "rejected", error |-> pl.name]]
    ELSE IF pl.setup
    THEN [st EXCEPT !.plugins = RgSet(@, pl),
                    !.pending = Append(@, pl), !.setups = @ + 1, !.calls = @ + 1,
                    !.last = [plugin |-> pl, outcome |-> "pending", error |-> <<>>]]
    ELSE [st EXCEPT !.plugins = RgSet(@, pl), !.calls = @ + 1,
                    !.last = [plugin |-> pl, outcome |-> "resolved", error |-> <<>>]]

\* register(plugin) up to its first await, on the registry state st: the
\* collision error, or the call of the setup hook, or the set.
RegisterSync(st, pl) ==
    IF RgHas(st.plugins, pl.name)
    THEN [st EXCEPT !.calls = @ + 1,
                    !.last = [plugin |-> pl, outcome |-> "rejected", error |-> pl.name]]
    ELSE IF pl.setup
    THEN [st EXCEPT !.pending = Append(@, pl), !.setups = @ + 1, !.calls = @ + 1,
                    !.last = [plugin |-> pl, outcome |-> "pending", error |-> <<>>]]
    ELSE [st EXCEPT !.plugins = RgSet(@, pl), !.calls = @ + 1,
                    !.last = [plugin |-> pl, outcome |-> "resolved", error |-> <<>>]]

RegistryState ==
    [plugins |-> rgPlugins, pending |-> rgPending, setups |-> rgSetups,
     calls |-> rgCalls, last |-> rgLast, rejected |-> 0]

\* The constructor's loop: registerPlugin(plugin), not awaited, for every
\* plugin of config.plugins; rejected counts the promises that rejected.
RECURSIVE RegisterEach(_, _)
RegisterEach(st, pls) ==
    IF pls = <<>> THEN st
    ELSE LET next == RegisterSync(st, Head(pls))
         IN  RegisterEach(
                 [next EXCEPT !.rejected =
                     IF next.last.outcome = "rejected" THEN @ + 1 ELSE @],
                 Tail(pls))

RegistryInit ==
    /\ rgPlugins = <<>>
    /\ rgPending = <<>>
    /\ rgSetups = 0
    /\ rgCalls = 0
    /\ rgLast = NoRegisterCall
    /\ rgCtor = [state |-> "none", plugins |-> <<>>, rejected |-> 0]
    /\ rgParsed = [tool |-> <<>>, plugin |-> <<>>, action |-> <<>>,
                   result |-> [kind |-> "none", pluginName |-> <<>>, actionName |-> <<>>]]

\* new AgentBridgeEngine({plugins: cfg}): the constructor returns once the
\* loop has run; it awaits no registerPlugin promise, so a rejection of
\* one reaches no caller.
Construct(cfg) ==
    /\ rgCtor.state = "none"
    /\ rgCalls = 0
    /\ LET st == RegisterEach(RegistryState, cfg)
       IN  /\ rgPlugins' = st.plugins
           /\ rgPending' = st.pending
           /\ rgSetups' = st.setups
           /\ rgCalls' = st.calls
           /\ rgLast' = st.last
           /\ rgCtor' = [state |-> "returned", plugins |-> cfg, rejected |-> st.rejected]
    /\ UNCHANGED rgParsed

\* register(plugin), or registerPlugin(plugin), up to its first await.
Register(pl) ==
    /\ rgCalls < MaxRegisterCalls
    /\ LET st == RegisterSync(RegistryState, pl)
       IN  /\ rgPlugins' = st.plugins
           /\ rgPending' = st.pending
           /\ rgSetups' = st.setups
           /\ rgCalls' = st.calls
           /\ rgLast' = st.last
    /\ UNCHANGED <<rgCtor, rgParsed>>

\* plugin.setup() of the i-th waiting register call resolves: the set.
SetupResolves(i) ==
    /\ i \in 1..Len(rgPending)
    /\ rgPlugins' = RgSet(rgPlugins, rgPending[i])
    /\ rgPending' = SubSeq(rgPending, 1, i - 1) \o SubSeq(rgPending, i + 1, Len(rgPending))
    /\ UNCHANGED <<rgSetups, rgCalls, rgLast, rgCtor, rgParsed>>

\* plugin.setup() of the i-th waiting register call rejects: register
\* rejects and sets nothing.
SetupRejects(i) ==
    /\ i \in 1..Len(rgPending)
    /\ rgPending' = SubSeq(rgPending, 1, i - 1) \o SubSeq(rgPending, i + 1, Len(rgPending))
    /\ UNCHANGED <<rgPlugins, rgSetups, rgCalls, rgLast, rgCtor, rgParsed>>

\* unregister(name); the teardown hook it calls changes nothing here.
Unregister(name) ==
    /\ rgPlugins' = RgDelete(rgPlugins, name)
    /\ UNCHANGED <<rgPending, rgSetups, rgCalls, rgLast, rgCtor, rgParsed>>

\* parseToolName applied to the name of the i-th tool of toLLMTools().
ParseTool(i) ==
    /\ i \in 1..Len(RgToLLMTools(rgPlugins))
    /\ LET t == RgToLLMTools(rgPlugins)[i]
       IN  rgParsed' = [tool |-> t.name, plugin |-> t.plugin, action |-> t.action,
                        result |-> ParseToolName(t.name)]
    /\ UNCHANGED <<rgPlugins, rgPending, rgSetups, rgCalls, rgLast, rgCtor>>

RegistryNext ==
    \/ \E cfg \in ConfigPluginLists : Construct(cfg) /\ UNCHANGED nonRegistryVars
    \/ \E pl \in PluginObjects : Register(pl) /\ UNCHANGED nonRegistryVars
    \/ \E i \in 1..Len(rgPending) : SetupResolves(i) /\ UNCHANGED nonRegistryVars
    \/ \E i \in 1..Len(rgPending) : SetupRejects(i) /\ UNCHANGED nonRegistryVars
    \/ \E pl \in PluginObjects : Unregister(pl.name) /\ UNCHANGED nonRegistryVars
    \/ \E i \in 1..Len(RgToLLMTools(rgPlugins)) : ParseTool(i) /\ UNCHANGED nonRegistryVars

(***************************************************************************)
(* Functions that keep no state, applied to inputs of bounded size         *)
(***************************************************************************)

\* Characters of a tool name handed to parseToolName.
MaxNameLen == 4

NameChars == {"a", "b", "_"}

\* The tool names a caller can hand to parseToolName.
ToolNameInputs == UNION { [1..n -> NameChars] : n \in 0..MaxNameLen }

FunctionInit == fnCall = [fn |-> "none"]

\* PluginRegistry.parseToolName(toolName) for a name of the caller's.
ParseName(toolName) ==
    fnCall' = [fn |-> "parseToolName", arg |-> toolName,
               result |-> ParseToolName(toolName)]

CodecNext ==
    \E t \in ToolNameInputs : ParseName(t) /\ UNCHANGED nonFunctionVars

\* JSON values: a primitive, an array of values, or an object, a function
\* from its keys to values.
PrimNode(v) == [t |-> "prim", v |-> v]

ArrNode(vs) == [t |-> "arr", v |-> vs]

ObjNode(f) == [t |-> "obj", v |-> f]

\* The keys of an object f restricted to ks.
Restrict(f, ks) == [k \in ks |-> f[k]]

\* A list of dropped keys that holds enum too.
DroppedKeysAndEnum ==
    {"description", "default", "examples", "title", "$id", "$comment", "enum"}

\* ['description', 'default', 'examples', 'title', '$id', '$comment']
DroppedKeys == {"description", "default", "examples", "title", "$id", "$comment"}

\* compactJsonSchema(value): arrays element by element, objects without
\* the dropped keys and with every other value compacted, anything else as
\* it is.
RECURSIVE CompactJsonSchema(_)
CompactJsonSchema(value) ==
    IF value.t = "arr"
    THEN ArrNode([i \in 1..Len(value.v) |-> CompactJsonSchema(value.v[i])])
    ELSE IF value.t = "obj"
    THEN ObjNode([k \in (DOMAIN value.v) \ DroppedKeys |-> CompactJsonSchema(value.v[k])])
    ELSE value

\* The schemas zodToJsonSchema gives for one parameter: a string, with or
\* without description, default and enum, and an array of such strings.
StringSchemas ==
    { ObjNode(Restrict([type |-> PrimNode("string"),
                        description |-> PrimNode("text"),
                        default |-> PrimNode("x"),
                        enum |-> ArrNode(<<PrimNode("x"), PrimNode("y")>>)], ks)) :
        ks \in { {"type"}, {"type", "description"}, {"type", "enum"},
                 {"type", "description", "default", "enum"} } }

ArraySchemas ==
    { ObjNode([type |-> PrimNode("array"), items |-> it]) : it \in StringSchemas }
        \cup { ObjNode([type |-> PrimNode("array"), items |-> it,
                        description |-> PrimNode("text")]) : it \in StringSchemas }

ParameterSchemas == StringSchemas \cup ArraySchemas

\* Parameter names of an action; a parameter may be called description
\* or title.
ParameterNames == {"q", "description", "title"}

\* [a, b, ...]: the names of a set as a JSON array, in one order.
RECURSIVE NamesArray(_)
NamesArray(ks) ==
    IF ks = {} THEN <<>>
    ELSE LET k == CHOOSE x \in ks : TRUE
         IN  <<PrimNode(k)>> \o NamesArray(ks \ {k})

\* The schema of z.object({...}) over the parameters ks, all required:
\* what toLLMTools hands to compactJsonSchema.
ObjectSchema(props) ==
    ObjNode([type |-> PrimNode("object"),
             properties |-> ObjNode(props),
             required |-> ArrNode(NamesArray(DOMAIN props)),
             additionalProperties |-> PrimNode("false")])

ToolSchemas ==
    { ObjectSchema(props) :
        props \in UNION { [ks -> StringSchemas \cup
                                   { ObjNode([type |-> PrimNode("array"),
                                              items |-> it]) : it \in StringSchemas }] :
                            ks \in (SUBSET ParameterNames) \ {{}} } }

\* compactJsonSchema(schema), and compactJsonSchema of its result.
Compact(schema) ==
    fnCall' = [fn |-> "compactJsonSchema", arg |-> schema,
               result |-> CompactJsonSchema(schema),
               twice |-> CompactJsonSchema(CompactJsonSchema(schema))]

CompactNext ==
    \/ \E x \in ParameterSchemas : Compact(x) /\ UNCHANGED nonFunctionVars
    \/ \E x \in ToolSchemas : Compact(x) /\ UNCHANGED nonFunctionVars

\* Text is a sequence of characters.
LowerCase == <<"a", "b", "c", "d", "e", "f", "g", "h", "i", "j", "k", "l", "m", "n", "o", "p", "q", "r", "s", "t", "u", "v", "w", "x", "y", "z">>

UpperCase == <<"A", "B", "C", "D", "E", "F", "G", "H", "I", "J", "K", "L", "M", "N", "O", "P", "Q", "R", "S", "T", "U", "V", "W", "X", "Y", "Z">>

Digits == <<"0", "1", "2", "3", "4", "5", "6", "7", "8", "9">>

\* toLowerCase of one character and of a text.
Lower(c) ==
    IF \E i \in 1..Len(UpperCase) : UpperCase[i] = c
    THEN LowerCase[CHOOSE i \in 1..Len(UpperCase) : UpperCase[i] = c]
    ELSE c

ToLowerCase(text) == [i \in 1..Len(text) |-> Lower(text[i])]

\* The characters of [a-z0-9_].
WordChars == { LowerCase[i] : i \in 1..Len(LowerCase) }
                \cup { Digits[i] : i \in 1..Len(Digits) } \cup {"_"}

\* text.match(/[a-z0-9_]+/g): the maximal runs of word characters.
RECURSIVE MatchWords(_, _, _)
MatchWords(rest, cur, acc) ==
    IF rest = <<>> THEN (IF cur = <<>> THEN acc ELSE Append(acc, cur))
    ELSE IF Head(rest) \in WordChars
         THEN MatchWords(Tail(rest), Append(cur, Head(rest)), acc)
         ELSE MatchWords(Tail(rest), <<>>, IF cur = <<>> THEN acc ELSE Append(acc, cur))

stopwords ==
    { <<"t", "h", "e">>, <<"a">>, <<"a", "n">>,
      <<"t", "o">>, <<"f", "o", "r">>, <<"w", "i", "t", "h">>,
      <<"a", "n", "d">>, <<"o", "r">>, <<"o", "f">>,
      <<"i", "n">>, <<"o", "n">>, <<"a", "t">>,
      <<"i", "s">>, <<"a", "r", "e">>, <<"c", "a", "n">>,
      <<"c", "o", "u", "l", "d">>, <<"w", "o", "u", "l", "d">>, <<"s", "h", "o", "u", "l", "d">>,
      <<"p", "l", "e", "a", "s", "e">>, <<"m", "e">>, <<"m", "y">>,
      <<"y", "o", "u">>, <<"y", "o", "u", "r">>, <<"i", "t">>,
      <<"t", "h", "i", "s">>, <<"t", "h", "a", "t">>, <<"a", "n", "y">>,
      <<"f", "r", "o", "m">>, <<"v", "i", "a">>, <<"b", "y">> }

\* tokenize(text): the words that are no stopwords, and the singular of
\* each word of more than three characters that ends in s.
Tokenize(text) ==
    LET words == MatchWords(ToLowerCase(text), <<>>, <<>>)
        tokens == { words[i] : i \in 1..Len(words) } \ stopwords
    IN  tokens \cup { SubSeq(t, 1, Len(t) - 1) :
                        t \in { x \in tokens : Len(x) > 3 /\ x[Len(x)] = "s" } }

synonyms(token) ==
    CASE token = <<"s", "o", "n", "g">> -> {<<"t", "r", "a", "c", "k">>, <<"m", "u", "s", "i", "c">>}
      [] token = <<"s", "o", "n", "g", "s">> -> {<<"t", "r", "a", "c", "k", "s">>, <<"m", "u", "s", "i", "c">>}
      [] token = <<"f", "i", "n", "d">> -> {<<"s", "e", "a", "r", "c", "h">>, <<"l", "o", "o", "k", "u", "p">>, <<"g", "e", "t">>}
      [] token = <<"d", "i", "s", "c", "o", "v", "e", "r">> -> {<<"s", "e", "a", "r", "c", "h">>, <<"r", "e", "c", "o", "m", "m", "e", "n", "d", "a", "t", "i", "o", "n", "s">>}
      [] token = <<"p", "l", "a", "y">> -> {<<"p", "l", "a", "y", "b", "a", "c", "k">>, <<"s", "t", "a", "r", "t">>}
      [] token = <<"p", "a", "u", "s", "e">> -> {<<"p", "l", "a", "y", "b", "a", "c", "k">>}
      [] token = <<"s", "k", "i", "p">> -> {<<"n", "e", "x", "t">>, <<"p", "r", "e", "v", "i", "o", "u", "s">>}
      [] token = <<"l", "i", "k", "e", "d">> -> {<<"s", "a", "v", "e", "d">>, <<"l", "i", "b", "r", "a", "r", "y">>}
      [] OTHER -> {}

\* expandQueryTokens(tokens)
ExpandQueryTokens(tokens) == tokens \cup UNION { synonyms(t) : t \in tokens }

\* countOverlap(a, b)
CountOverlap(a, b) == Cardinality(a \cap b)

\* hay.includes(needle)
Includes(hay, needle) ==
    \E i \in 0..(Len(hay) - Len(needle)) : SubSeq(hay, i + 1, i + Len(needle)) = needle

\* actionBasePriority(actionName)
ActionBasePriority(actionName) ==
    LET n == ToLowerCase(actionName)
    IN  IF Includes(n, <<"s", "e", "a", "r", "c", "h">>) \/ Includes(n, <<"f", "i", "n", "d">>) THEN 18
        ELSE IF Includes(n, <<"l", "i", "s", "t">>) THEN 12
        ELSE IF Includes(n, <<"g", "e", "t">>) THEN 10
        ELSE IF Includes(n, <<"c", "r", "e", "a", "t", "e">>) \/ Includes(n, <<"a", "d", "d">>) \/ Includes(n, <<"s", "t", "a", "r", "t">>) THEN 8
        ELSE IF Includes(n, <<"u", "p", "d", "a", "t", "e">>) \/ Includes(n, <<"e", "d", "i", "t">>) \/ Includes(n, <<"s", "a", "v", "e">>) THEN 7
        ELSE IF Includes(n, <<"d", "e", "l", "e", "t", "e">>) \/ Includes(n, <<"r", "e", "m", "o", "v", "e">>) THEN 6
        ELSE 4

\* text.trim()
RECURSIVE Trim(_)
Trim(text) ==
    IF text = <<>> THEN text
    ELSE IF Head(text) = " " THEN Trim(Tail(text))
    ELSE IF text[Len(text)] = " " THEN Trim(SubSeq(text, 1, Len(text) - 1))
    ELSE text

\* name.replace(/_/g, ' ')
ReplaceUnderscores(name) == [i \in 1..Len(name) |-> IF name[i] = "_" THEN " " ELSE name[i]]

\* a.localeCompare(b) < 0 for names of "_", digits and lower-case letters:
\* "_" sorts before the digits and the digits before the letters, and a
\* name sorts after its prefixes.
CharOrder == <<"_">> \o Digits \o LowerCase

Rank(c) == CHOOSE i \in 1..Len(CharOrder) : CharOrder[i] = c

RECURSIVE LocaleBefore(_, _)
LocaleBefore(a, b) ==
    IF b = <<>> THEN FALSE
    ELSE IF a = <<>> THEN TRUE
    ELSE IF Head(a) = Head(b) THEN LocaleBefore(Tail(a), Tail(b))
    ELSE Rank(Head(a)) < Rank(Head(b))

\* The largest tool budget a caller passes to selectLLMTools.
MaxSelectTools == 3

SelectBudgets == (0 - 1)..MaxSelectTools

\* Plugins of a registry, their actions with descriptions.
SpPlugin ==
    [name |-> <<"s", "p">>,
     actions |-> << [name |-> <<"s", "e", "a", "r", "c", "h">>, description |-> <<"t", "r", "a", "c", "k">>],
                    [name |-> <<"l", "i", "s", "t">>, description |-> <<"s", "o", "n", "g", "s">>],
                    [name |-> <<"g", "e", "t", "_", "m", "e">>, description |-> <<>>] >>]

TdPlugin ==
    [name |-> <<"t", "d">>,
     actions |-> << [name |-> <<"a", "d", "d">>, description |-> <<"t", "a", "s", "k">>],
                    [name |-> <<"l", "i", "s", "t">>, description |-> <<"t", "a", "s", "k", "s">>] >>]

MusicPlugin ==
    [name |-> <<"m", "u", "s", "i", "c">>,
     actions |-> << [name |-> <<"g", "e", "t">>, description |-> <<"a", " ", "s", "o", "n", "g">>],
                    [name |-> <<"l", "i", "s", "t">>, description |-> <<>>] >>]

SepPlugin ==
    [name |-> <<"a", "_", "_", "b">>,
     actions |-> << [name |-> <<"s", "e", "a", "r", "c", "h">>, description |-> <<>>],
                    [name |-> <<"l", "i", "s", "t">>, description |-> <<"t", "r", "a", "c", "k">>] >>]

\* The registries selectLLMTools runs over, in Map order.
SelectRegistries ==
    { <<SpPlugin, TdPlugin>>, <<TdPlugin, SpPlugin, MusicPlugin>>,
      <<SpPlugin, MusicPlugin>>, <<SepPlugin, TdPlugin>> }

\* What the user types.
SelectInputs ==
    { <<>>,
      <<"s", "p">>,
      <<"l", "i", "s", "t", " ", "o", "n", " ", "S", "P">>,
      <<"f", "i", "n", "d", " ", "a", " ", "s", "o", "n", "g">>,
      <<"a", "_", "_", "b", " ", "l", "i", "s", "t">>,
      <<"a", "d", "d", " ", "t", "a", "s", "k", "s", " ">>,
      <<"x", "t", "d", "x">>,
      <<"t", "d", "_", "_", "l", "i", "s", "t">>,
      <<"p", "l", "a", "y", " ", "m", "u", "s", "i", "c">>,
      <<"s", "p", " ", "s", "o", "n", "g">> }

\* toLLMTools() with descriptions: `[${plugin.name}] ${action.description}`;
\* plugin says which plugin a tool was made from.
RECURSIVE DescribedTools(_)
DescribedTools(ps) ==
    IF ps = <<>> THEN <<>>
    ELSE LET pl == Head(ps)
         IN  [i \in 1..Len(pl.actions) |->
                 [name |-> EncodeToolName(pl.name, pl.actions[i].name),
                  description |-> <<"[">> \o pl.name \o <<"]", " ">>
                                    \o pl.actions[i].description,
                  plugin |-> pl.name]]
                 \o DescribedTools(Tail(ps))

\* The plugin names the code takes as mentioned: a query token, or a
\* substring of the lower-cased input.
MentionedPlugins(ps, userInput) ==
    LET queryTokens == ExpandQueryTokens(Tokenize(userInput))
        pluginNames == { ToLowerCase(ps[i].name) : i \in 1..Len(ps) }
    IN  { n \in pluginNames : n \in queryTokens \/ Includes(ToLowerCase(userInput), n) }

\* The score of one tool.
Score(tool, ps, userInput) ==
    LET queryTokens == ExpandQueryTokens(Tokenize(userInput))
        rawInput == Trim(ToLowerCase(userInput))
        parsed == ParseToolName(tool.name)
        actionTokens == Tokenize(ReplaceUnderscores(parsed.actionName))
        descTokens == Tokenize(tool.description)
    IN  ActionBasePriority(parsed.actionName)
          + CountOverlap(queryTokens, actionTokens) * 8
          + CountOverlap(queryTokens, descTokens) * 3
          + (IF ToLowerCase(parsed.pluginName) \in MentionedPlugins(ps, userInput)
             THEN 30 ELSE 0)
          + (IF Len(rawInput) > 2 /\ Includes(ToLowerCase(tool.name), rawInput)
             THEN 20 ELSE 0)

\* b.score - a.score || a.tool.name.localeCompare(b.tool.name) < 0
ScoredBefore(a, b) ==
    \/ a.score > b.score
    \/ a.score = b.score /\ LocaleBefore(a.tool.name, b.tool.name)

\* Array.prototype.sort, which is stable: x goes before the first entry
\* that does not go before it.
RECURSIVE InsertScored(_, _)
InsertScored(x, sorted) ==
    IF sorted = <<>> THEN <<x>>
    ELSE IF ScoredBefore(Head(sorted), x)
         THEN <<Head(sorted)>> \o InsertScored(x, Tail(sorted))
         ELSE <<x>> \o sorted

RECURSIVE SortScored(_)
SortScored(list) ==
    IF list = <<>> THEN <<>>
    ELSE InsertScored(Head(list), SortScored(Tail(list)))

\* A slice that keeps everything.
SliceAll(list, n) == list

\* list.slice(0, n) for n >= 0
Slice(list, n) == SubSeq(list, 1, IF n < Len(list) THEN n ELSE Len(list))

ToolsOf(scored) == [i \in 1..Len(scored) |-> scored[i].tool]

\* selectLLMTools(userInput, maxTools) over a registry holding ps.  It
\* throws when parseToolName throws for a tool.
SelectLLMTools(ps, userInput, budget) ==
    LET allTools == DescribedTools(ps)
        mentionedPlugins == MentionedPlugins(ps, userInput)
        IsMentioned(x) == ToLowerCase(x.pluginName) \in mentionedPlugins
        scored == SortScored([i \in 1..Len(allTools) |->
                      [tool |-> allTools[i],
                       pluginName |-> ParseToolName(allTools[i].name).pluginName,
                       score |-> Score(allTools[i], ps, userInput)]])
        focused == Slice(SelectSeq(scored, IsMentioned), budget)
        rest == Slice(SelectSeq(scored, LAMBDA x : ~IsMentioned(x)), budget - Len(focused))
    IN  IF budget <= 0 \/ Len(allTools) <= budget
        THEN [kind |-> "returned", tools |-> allTools]
        ELSE IF \E i \in 1..Len(allTools) : ParseToolName(allTools[i].name).kind = "throws"
        THEN [kind |-> "throws", tools |-> <<>>]
        ELSE IF mentionedPlugins # {}
        THEN IF Len(focused) >= budget
             THEN [kind |-> "returned", tools |-> ToolsOf(focused)]
             ELSE [kind |-> "returned", tools |-> ToolsOf(focused \o rest)]
        ELSE [kind |-> "returned", tools |-> ToolsOf(Slice(scored, budget))]

\* A call of selectLLMTools.
Select(ps, userInput, budget) ==
    fnCall' = [fn |-> "selectLLMTools",
               arg |-> [plugins |-> ps, userInput |-> userInput, maxTools |-> budget],
               result |-> SelectLLMTools(ps, userInput, budget)]

SelectNext ==
    \E ps \in SelectRegistries, userInput \in SelectInputs, budget \in SelectBudgets :
        Select(ps, userInput, budget) /\ UNCHANGED nonFunctionVars

\* The value of a field a manifest parameter does not have.
Undefined == "undefined"

\* The enum of a parameter that has none.
NoEnum == <<>>

ManifestTypes == {"string", "number", "integer", "boolean", "array", "object"}

\* ManifestParameter: name, type, required, and the optional default and
\* enum.
ManifestParameter(n) ==
    [name : {n}, type : ManifestTypes, required : BOOLEAN,
     default : {Undefined, "x"}, enum : {NoEnum, <<"x", "y">>}]

\* The parameter lists of a manifest action: none, one, or two parameters
\* of different names, the second a plain string or array.
ManifestParameterLists ==
    {<<>>} \cup { <<a>> : a \in ManifestParameter("q") }
           \cup { <<a, b>> : a \in ManifestParameter("q"),
                             b \in { x \in ManifestParameter("ids") :
                                       /\ x.type \in {"string", "array"}
                                       /\ x.default = Undefined
                                       /\ x.enum = NoEnum } }

\* The zod type buildZodSchema makes of one parameter: the kind chosen by
\* the switch, then describe, default and optional.
ZodField(param) ==
    [kind |-> CASE param.type \in {"number", "integer"} -> "ZodNumber"
                [] param.type = "boolean" -> "ZodBoolean"
                [] param.type = "array" -> "ZodArray"
                [] param.type = "object" -> "ZodRecord"
                [] OTHER -> IF param.enum # NoEnum THEN "ZodEnum" ELSE "ZodString",
     element |-> IF param.type \in {"array", "object"} THEN "ZodAny" ELSE Undefined,
     values |-> param.enum,
     description |-> "text",
     default |-> param.default,
     optional |-> ~param.required]

\* buildZodSchema(parameters): z.object of the fields, in the order of the
\* parameters.
BuildZodSchema(parameters) ==
    [i \in 1..Len(parameters) |->
        [name |-> parameters[i].name, field |-> ZodField(parameters[i])]]

\* The index of the last entry of the list with this name: a later
\* assignment to shape[name] replaces an earlier one.
LastNamed(list, n) ==
    CHOOSE i \in 1..Len(list) :
        list[i].name = n /\ \A j \in 1..Len(list) : list[j].name = n => j <= i

\* zodToJsonSchema of one field. An array whose element is z.any() comes
\* out as {"type": "array"}: items is written only for an element type
\* other than any.
FieldJsonSchema(field) ==
    LET all == [type |-> PrimNode(CASE field.kind = "ZodNumber" -> "number"
                                    [] field.kind = "ZodBoolean" -> "boolean"
                                    [] field.kind = "ZodArray" -> "array"
                                    [] field.kind = "ZodRecord" -> "object"
                                    [] OTHER -> "string"),
                items |-> ObjNode([type |-> PrimNode(field.element)]),
                additionalProperties |-> ObjNode(<<>>),
                enum |-> ArrNode([i \in 1..Len(field.values) |-> PrimNode(field.values[i])]),
                description |-> PrimNode(field.description),
                default |-> PrimNode(field.default)]
        keys == {"type", "description"}
                  \cup (IF field.kind = "ZodArray" /\ field.element # "ZodAny"
                        THEN {"items"} ELSE {})
                  \cup (IF field.kind = "ZodRecord" THEN {"additionalProperties"} ELSE {})
                  \cup (IF field.kind = "ZodEnum" THEN {"enum"} ELSE {})
                  \cup (IF field.default # Undefined THEN {"default"} ELSE {})
    IN  ObjNode(Restrict(all, keys))

\* The names of the fields that are neither optional nor defaulted, in
\* order: the required list of the object.
RECURSIVE RequiredNames(_)
RequiredNames(shape) ==
    IF shape = <<>> THEN <<>>
    ELSE (IF ~shape[1].field.optional /\ shape[1].field.default = Undefined
          THEN <<PrimNode(shape[1].name)>> ELSE <<>>)
         \o RequiredNames(Tail(shape))

\* zodToJsonSchema(z.object(shape), {target: 'openApi3'}) without $schema:
\* required is written when it is not empty.
ZodToJsonSchema(shape) ==
    LET names == { shape[i].name : i \in 1..Len(shape) }
        all == [type |-> PrimNode("object"),
                properties |-> ObjNode([n \in names |->
                    FieldJsonSchema(shape[LastNamed(shape, n)].field)]),
                required |-> ArrNode(RequiredNames(shape)),
                additionalProperties |-> PrimNode("false")]
    IN  ObjNode(Restrict(all, {"type", "properties", "additionalProperties"}
                  \cup (IF RequiredNames(shape) # <<>> THEN {"required"} ELSE {})))

\* The parameter shape createMCPServer registers for one parameter.
McpSchema(param) ==
    LET schemaType == IF param.type = "integer" THEN "number" ELSE param.type
        type == IF schemaType \in {"object", "array", "boolean", "number"}
                THEN schemaType ELSE "string"
        all == [type |-> PrimNode(type),
                description |-> PrimNode("text"),
                items |-> ObjNode([type |-> PrimNode("string")]),
                additionalProperties |-> PrimNode("true")]
    IN  ObjNode(Restrict(all, {"type", "description"}
                  \cup (IF type = "array" THEN {"items"} ELSE {})
                  \cup (IF type = "object" THEN {"additionalProperties"} ELSE {})))

ParamShape(parameters) ==
    ObjNode([n \in { parameters[i].name : i \in 1..Len(parameters) } |->
        McpSchema(parameters[LastNamed(parameters, n)])])

\* toLLMTools() for a plugin compiled from a manifest action with these
\* parameters: the tool's parameters.
ManifestToLLMTools(parameters) ==
    fnCall' = [fn |-> "toLLMTools", arg |-> parameters,
               result |-> CompactJsonSchema(ZodToJsonSchema(BuildZodSchema(parameters)))]

\* createMCPServer for a manifest action with these parameters: the
\* shape handed to server.tool.
CreateMCPServer(parameters) ==
    fnCall' = [fn |-> "createMCPServer", arg |-> parameters,
               result |-> ParamShape(parameters)]

SchemaNext ==
    \/ \E ps \in ManifestParameterLists :
          ManifestToLLMTools(ps) /\ UNCHANGED nonFunctionVars
    \/ \E ps \in ManifestParameterLists :
          CreateMCPServer(ps) /\ UNCHANGED nonFunctionVars

(***************************************************************************)
(* Compiled actions: manifest-to-plugin.ts createAction, and the MCP       *)
(* server's executeAction, which builds its request the same way            *)
(***************************************************************************)

\* Objects whose keys keep their order: headers, queryParams, bodyParams.
KeySet(obj) == { obj[i].name : i \in 1..Len(obj) }

\* obj[name] = value
SetKey(obj, name, value) ==
    IF name \in KeySet(obj)
    THEN [i \in 1..Len(obj) |-> IF obj[i].name = name
                                 THEN [name |-> name, value |-> value] ELSE obj[i]]
    ELSE Append(obj, [name |-> name, value |-> value])

GetKey(obj, name) == obj[CHOOSE i \in 1..Len(obj) : obj[i].name = name].value

\* encodeURIComponent(String(value))
EncodeURIComponent(value) == IF value = "a b" THEN "a%20b" ELSE value

\* new URLSearchParams(queryParams).toString(), one value
FormEncode(value) == IF value = "a b" THEN "a+b" ELSE value

\* A replace that finds nothing.
ReplaceNone(path, name, text) == path

\* url.replace(`{${name}}`, text): the first occurrence.
ReplaceFirst(path, name, text) ==
    LET hits == { i \in 1..Len(path) : path[i] = "{" \o name \o "}" }
    IN  IF hits = {} THEN path
        ELSE [i \in 1..Len(path) |->
                 IF i = CHOOSE h \in hits : \A g \in hits : h <= g THEN text ELSE path[i]]

\* The right-hand side, whatever the left.
CoalesceRight(a, b) == b

\* a ?? b
Coalesce(a, b) == IF a # Undefined THEN a ELSE b

\* if (value): a string that is neither missing nor empty
Truthy(value) == value \notin {Undefined, ""}

ParameterDef(name, in) == [name |-> name, in |-> in]

Methods == {"GET", "POST", "PUT", "PATCH", "DELETE"}

\* ['POST', 'PUT', 'PATCH']
BodyMethods == {"POST", "PUT", "PATCH"}

NoCredentials ==
    [given |-> FALSE, token |-> Undefined, api_key |-> Undefined,
     access_token |-> Undefined, oauth_access_token |-> Undefined]

\* credentials: token, api_key, access_token and oauth.access_token.
CredentialRecords ==
    [given : {TRUE}, token : {Undefined, "tok"}, api_key : {Undefined, "key"},
     access_token : {Undefined, "", "top"}, oauth_access_token : {Undefined, "nested"}]

\* The parameter objects a caller passes: any of the names, each with the
\* value "a b".
ParamObjects(names) == UNION { [ks -> {"a b"}] : ks \in SUBSET names }

\* A manifest with one action of four parameters, one for each place, called
\* with any of them and with a parameter the action does not declare.
RoutingCalls ==
    { [manifest |-> [name |-> "api", auth |-> "none"],
       action |-> [id |-> "op", method |-> m, path |-> <<"/items/", "{id}">>,
                   parameters |-> << ParameterDef("id", "path"), ParameterDef("q", "query"),
                                     ParameterDef("h", "header"), ParameterDef("b", "body") >>],
       params |-> ps, credentials |-> NoCredentials, via |-> v] :
        m \in Methods, ps \in ParamObjects({"id", "q", "h", "b", "x"}),
        v \in {"createAction", "executeAction"} }

\* Manifests of every auth type, called with and without credentials.
AuthCalls ==
    { [manifest |-> [name |-> "api", auth |-> a],
       action |-> [id |-> "me", method |-> "GET", path |-> <<"/me">>, parameters |-> <<>>],
       params |-> <<>>, credentials |-> c, via |-> v] :
        a \in {"bearer", "api_key", "oauth2"},
        c \in CredentialRecords \cup {NoCredentials},
        v \in {"createAction", "executeAction"} }

\* The actions createAction knows by name: spotify create_playlist and
\* gmail send_message and create_draft, called through the plugin and
\* through the MCP server.
HookCalls ==
    { [manifest |-> [name |-> "spotify", auth |-> "none"],
       action |-> [id |-> "create_playlist", method |-> "POST",
                   path |-> <<"/users/", "{user_id}", "/playlists">>,
                   parameters |-> << ParameterDef("user_id", "path"),
                                     ParameterDef("name", "body") >>],
       params |-> ps, credentials |-> NoCredentials, via |-> v] :
        ps \in { [name |-> "a b"], [name |-> "a b", user_id |-> "a b"],
                 [name |-> "a b", user_id |-> "user_id"],
                 [name |-> "a b", user_id |-> "<user_id>"] },
        v \in {"createAction", "executeAction"} }
      \cup
    { [manifest |-> [name |-> "gmail", auth |-> "none"],
       action |-> [id |-> i, method |-> "POST", path |-> <<"/messages">>,
                   parameters |-> << ParameterDef("to", "body"), ParameterDef("raw", "body") >>],
       params |-> ps, credentials |-> NoCredentials, via |-> v] :
        i \in {"send_message", "create_draft"}, ps \in ParamObjects({"to", "raw"}),
        v \in {"createAction", "executeAction"} }

\* Manifests of every auth type whose action declares header parameters
\* named like the headers the credentials go to, called with any of them,
\* with and without credentials.
AuthParamCalls ==
    { [manifest |-> [name |-> "api", auth |-> a],
       action |-> [id |-> "op", method |-> "GET", path |-> <<"/items">>,
                   parameters |-> << ParameterDef("Authorization", "header"),
                                     ParameterDef("X-Api-Key", "header"),
                                     ParameterDef("q", "query") >>],
       params |-> ps, credentials |-> c, via |-> v] :
        a \in {"bearer", "api_key", "oauth2"},
        ps \in ParamObjects({"Authorization", "X-Api-Key", "q"}),
        c \in {NoCredentials, [NoCredentials EXCEPT !.given = TRUE, !.token = "tok"]},
        v \in {"createAction", "executeAction"} }

ActionCalls == RoutingCalls \cup AuthCalls \cup HookCalls \cup AuthParamCalls

\* Inject auth: the headers after the credentials are applied.
AuthHeaders(call) ==
    LET headers == << [name |-> "Content-Type", value |-> "application/json"],
                      [name |-> "Accept", value |-> "application/json"] >>
        c == call.credentials
        accessToken == Coalesce(c.access_token, Coalesce(c.oauth_access_token, c.token))
    IN  IF ~c.given THEN headers
        ELSE IF call.manifest.auth = "bearer" /\ Truthy(c.token)
        THEN SetKey(headers, "Authorization", "Bearer " \o c.token)
        ELSE IF call.manifest.auth = "api_key"
        THEN SetKey(headers, "X-Api-Key", Coalesce(c.api_key, Coalesce(c.token, "")))
        ELSE IF call.manifest.auth = "oauth2" /\ Truthy(accessToken)
        THEN SetKey(headers, "Authorization", "Bearer " \o accessToken)
        ELSE headers

\* The Spotify convenience applies to this call.
SpotifyHook(call) ==
    /\ call.via = "createAction"
    /\ call.manifest.name = "spotify"
    /\ call.action.id = "create_playlist"
    /\ \E i \in 1..Len(call.action.path) : call.action.path[i] = "{user_id}"

\* The Gmail convenience applies to this call.
GmailHook(call) ==
    /\ call.via = "createAction"
    /\ call.manifest.name = "gmail"
    /\ call.action.id \in {"send_message", "create_draft"}

\* user_id is missing or looks like a placeholder.
PlaceholderLike(params) ==
    \/ "user_id" \notin DOMAIN params
    \/ params["user_id"] \in {"", "user_id", "current_user"}
    \/ params["user_id"] = "<user_id>"

\* The request of the /me call.
MeRequest(call) ==
    [method |-> "GET", path |-> <<"/me">>, query |-> <<>>,
     headers |-> << [name |-> "Accept", value |-> "application/json"] >>
                   \o SelectSeq(AuthHeaders(call), LAMBDA h : h.name = "Authorization"),
     bodyParams |-> <<>>, hasBody |-> FALSE, body |-> <<>>]

\* Distribute params to path, query, header, body: the request after the
\* first n parameter definitions.
RECURSIVE Distribute(_, _, _, _)
Distribute(defs, resolvedParams, n, req) ==
    IF n = 0 THEN req
    ELSE LET r == Distribute(defs, resolvedParams, n - 1, req)
             d == defs[n]
         IN  IF d.name \notin DOMAIN resolvedParams THEN r
             ELSE LET value == resolvedParams[d.name]
                  IN  CASE d.in = "path" ->
                             [r EXCEPT !.path = ReplaceFirst(r.path, d.name, EncodeURIComponent(value))]
                        [] d.in = "query" ->
                             [r EXCEPT !.query = SetKey(r.query, d.name, value)]
                        [] d.in = "header" ->
                             [r EXCEPT !.headers = SetKey(r.headers, d.name, value)]
                        [] d.in = "body" ->
                             [r EXCEPT !.bodyParams = SetKey(r.bodyParams, d.name, value)]
                        [] OTHER -> r

\* normalizeGmailOutboundBody: raw, or a message built from the
\* recipients, base64url-encoded; no recipient and no raw is a failure.
GmailFails(bodyParams) == "raw" \notin KeySet(bodyParams) /\ "to" \notin KeySet(bodyParams)

NormalizeGmailOutboundBody(actionId, bodyParams) ==
    LET raw == IF "raw" \in KeySet(bodyParams) THEN "YSBi" ELSE "base64url(rfc822)"
    IN  IF actionId = "create_draft"
        THEN << [name |-> "message", value |-> "{raw:" \o raw \o "}"] >>
        ELSE << [name |-> "raw", value |-> raw] >>

\* A body for every method.
AnyMethodHasBody(req) == req.bodyParams # <<>>

\* ['POST', 'PUT', 'PATCH'].includes(action.method) && Object.keys(bodyParams).length > 0
HasBody(req) == req.method \in BodyMethods /\ req.bodyParams # <<>>

\* The header the credentials of the manifest's auth type go to:
\* manifest.auth.api_key_header, or Authorization.
AuthHeaderName(call) ==
    IF call.manifest.auth = "api_key" THEN "X-Api-Key" ELSE "Authorization"

\* A request built with the credentials put in after the parameters are
\* distributed.
MainRequestAuthLast(call, resolvedParams) ==
    LET start == [method |-> call.action.method, path |-> call.action.path,
                  query |-> <<>>, headers |-> AuthHeaders(call),
                  bodyParams |-> <<>>, hasBody |-> FALSE, body |-> <<>>]
        spread == Distribute(call.action.parameters, resolvedParams,
                             Len(call.action.parameters), start)
        relaid == IF AuthHeaderName(call) \in KeySet(AuthHeaders(call))
                  THEN [spread EXCEPT !.headers =
                           SetKey(@, AuthHeaderName(call),
                                  GetKey(AuthHeaders(call), AuthHeaderName(call)))]
                  ELSE spread
        shaped == IF GmailHook(call)
                  THEN [relaid EXCEPT !.bodyParams =
                           NormalizeGmailOutboundBody(call.action.id, relaid.bodyParams)]
                  ELSE relaid
        encoded == [shaped EXCEPT !.query =
                       [i \in 1..Len(shaped.query) |->
                           [name |-> shaped.query[i].name,
                            value |-> FormEncode(shaped.query[i].value)]]]
    IN  [encoded EXCEPT !.hasBody = HasBody(encoded),
                        !.body = IF HasBody(encoded) THEN encoded.bodyParams ELSE <<>>]

\* The request handed to fetch: params distributed, the Gmail body
\* normalized, the query string appended, the body serialized.
MainRequest(call, resolvedParams) ==
    LET start == [method |-> call.action.method, path |-> call.action.path,
                  query |-> <<>>, headers |-> AuthHeaders(call),
                  bodyParams |-> <<>>, hasBody |-> FALSE, body |-> <<>>]
        spread == Distribute(call.action.parameters, resolvedParams,
                             Len(call.action.parameters), start)
        shaped == IF GmailHook(call)
                  THEN [spread EXCEPT !.bodyParams =
                           NormalizeGmailOutboundBody(call.action.id, spread.bodyParams)]
                  ELSE spread
        encoded == [shaped EXCEPT !.query =
                       [i \in 1..Len(shaped.query) |->
                           [name |-> shaped.query[i].name,
                            value |-> FormEncode(shaped.query[i].value)]]]
    IN  [encoded EXCEPT !.hasBody = HasBody(encoded),
                        !.body = IF HasBody(encoded) THEN encoded.bodyParams ELSE <<>>]

\* The Gmail convenience refuses the body the params give.
GmailRefuses(call) ==
    /\ GmailHook(call)
    /\ GmailFails(Distribute(call.action.parameters, call.params, Len(call.action.parameters),
                             [path |-> call.action.path, query |-> <<>>, headers |-> <<>>,
                              bodyParams |-> <<>>]).bodyParams)

\* What fetch and response.text() give: a status and a body that is JSON,
\* the JSON null, a JSON object without id, or no JSON.
Responses == [ok : BOOLEAN, body : {"json", "null", "noid", "text"}]

NoActionResult == [kind |-> "none"]

Failure(via, message) ==
    IF via = "createAction"
    THEN [kind |-> "ActionResult", success |-> FALSE, message |-> message]
    ELSE [kind |-> "text", text |-> message]

\* error.message of a thrown value that has properties.
MessageOf(v) == IF v = "Error" THEN "fetch failed" ELSE "undefined"

\* The catch block: `Request failed: ${error.message}`; reading message of
\* null or undefined throws, and the promise rejects.
Caught(via, v) ==
    IF ReadingMessageThrows(v) THEN [kind |-> "rejected"]
    ELSE Failure(via, "Request failed: " \o MessageOf(v))

\* What execute makes of the response to the main request.
ResultOf(call, res) ==
    IF ~res.ok
    THEN Failure(call.via, IF call.via = "createAction" THEN "API returned 500"
                           ELSE "API error 500")
    ELSE IF call.via = "executeAction"
    THEN IF res.body = "null"
         THEN Failure(call.via, "Request failed: Cannot read properties of null")
         ELSE [kind |-> "text", text |-> "summary"]
    ELSE IF res.body = "null"
    THEN Failure(call.via, "Request failed: Cannot read properties of null")
    ELSE [kind |-> "ActionResult", success |-> TRUE, message |-> "summary"]

CompiledActionInit ==
    /\ acPc = "idle"
    /\ acCall = CHOOSE c \in ActionCalls : TRUE
    /\ acRequests = <<>>
    /\ acResult = NoActionResult

\* execute(params) up to its first await: the /me call of the Spotify
\* convenience, the refusal of the Gmail convenience, or the request.
ExecuteAction(call) ==
    /\ acPc \in {"idle", "done"}
    /\ acCall' = call
    /\ IF SpotifyHook(call) /\ PlaceholderLike(call.params)
       THEN /\ acPc' = "me"
            /\ acRequests' = <<MeRequest(call)>>
            /\ acResult' = NoActionResult
       ELSE IF GmailRefuses(call)
       THEN /\ acPc' = "done"
            /\ acRequests' = <<>>
            /\ acResult' = Failure(call.via,
                               "Gmail message needs at least one recipient (to/cc/bcc).")
       ELSE /\ acPc' = "fetch"
            /\ acRequests' = <<MainRequest(call, call.params)>>
            /\ acResult' = NoActionResult

\* resolvedParams being the caller's own object.
ResolvedParamsShared == TRUE

\* const resolvedParams = { ...(params ?? {}) }: a copy, not the object the
\* caller passed.
ResolvedParamsAliased == FALSE

\* The /me call answers: with an id, resolvedParams.user_id is set to it and
\* the request goes out; without one execute resolves to a failure.
MeResolves(res) ==
    /\ acPc = "me"
    /\ IF res.ok /\ res.body = "json"
       THEN LET resolvedParams == [k \in DOMAIN acCall.params \cup {"user_id"} |->
                                      IF k = "user_id" THEN "me1" ELSE acCall.params[k]]
            IN  /\ acPc' = "fetch"
                /\ acRequests' = Append(acRequests, MainRequest(acCall, resolvedParams))
                /\ acResult' = acResult
                /\ acCall' = IF ResolvedParamsAliased
                             THEN [acCall EXCEPT !.params = resolvedParams]
                             ELSE acCall
       ELSE /\ acPc' = "done"
            /\ acRequests' = acRequests
            /\ acResult' = Failure(acCall.via, "Unable to resolve Spotify user_id automatically")
            /\ UNCHANGED acCall

\* fetch or text() of the /me call rejects with v.
MeRejects(v) ==
    /\ acPc = "me"
    /\ acPc' = "done"
    /\ acResult' = Caught(acCall.via, v)
    /\ UNCHANGED <<acCall, acRequests>>

\* The request is answered.
FetchResolves(res) ==
    /\ acPc = "fetch"
    /\ acPc' = "done"
    /\ acResult' = ResultOf(acCall, res)
    /\ UNCHANGED <<acCall, acRequests>>

\* fetch or text() rejects with v.
FetchRejects(v) ==
    /\ acPc = "fetch"
    /\ acPc' = "done"
    /\ acResult' = Caught(acCall.via, v)
    /\ UNCHANGED <<acCall, acRequests>>

CompiledActionNext ==
    \/ \E call \in ActionCalls : ExecuteAction(call) /\ UNCHANGED nonActionVars
    \/ \E r \in Responses : MeResolves(r) /\ UNCHANGED nonActionVars
    \/ \E v \in ThrownValues : MeRejects(v) /\ UNCHANGED nonActionVars
    \/ \E r \in Responses : FetchResolves(r) /\ UNCHANGED nonActionVars
    \/ \E v \in ThrownValues : FetchRejects(v) /\ UNCHANGED nonActionVars

(***************************************************************************)
(* The web chat route: apps/web/src/app/api/chat/route.ts POST             *)
(***************************************************************************)

\* route.ts:98  if (sessions.size > 100)
MaxStoredSessions == 100

\* Sessions created over a run.
MaxCreatedSessions == 102

\* Messages of one engine session.
MaxHistory == 4

\* The messages of a session that served one request, which was answered.
OneTurn == <<"system", "user", "assistant">>

\* Every stored session but the one with this id has served one answered
\* request and no other: the runs of the model keep at most one session
\* with another history.
OthersServedOneTurn(store, id) ==
    \A i \in 1..Len(store) : store[i].id # id => store[i].history = OneTurn

\* sessionId of a request that carries none.
NoSessionId == 0

\* A sessionId no randomUUID call has given.
StrangerId == 0 - 1

StoredIds(store) == [i \in 1..Len(store) |-> store[i].id]

\* The sessionIds a client sends: none, one never given, the first one
\* given, the oldest and the newest stored.
RequestSessionIds ==
    {NoSessionId, StrangerId}
      \cup (IF wsIssued >= 1 THEN {1} ELSE {})
      \cup (IF wsSessions # <<>>
            THEN {wsSessions[1].id, wsSessions[Len(wsSessions)].id} ELSE {})

\* A lookup that gives the oldest stored session for an id the store does
\* not hold.
StoreIndexOrOldest(store, id) ==
    IF \E i \in 1..Len(store) : store[i].id = id
    THEN CHOOSE i \in 1..Len(store) : store[i].id = id
    ELSE IF store # <<>> THEN 1 ELSE 0

\* sessions.get(sessionId): the place of the session in the store, 0 for
\* undefined.
StoreIndex(store, id) ==
    IF \E i \in 1..Len(store) : store[i].id = id
    THEN CHOOSE i \in 1..Len(store) : store[i].id = id
    ELSE 0

\* An eviction that takes the newest entry.
EvictNewest(store) ==
    IF Len(store) > MaxStoredSessions THEN SubSeq(store, 1, Len(store) - 1) ELSE store

\* if (sessions.size > 100) sessions.delete(sessions.keys().next().value)
EvictOldest(store) ==
    IF Len(store) > MaxStoredSessions THEN Tail(store) ELSE store

NoRouteResponse == [status |-> 0, sessionId |-> NoSessionId]

RouteInit ==
    /\ wsSessions = <<>>
    /\ wsIssued = 0
    /\ wsPc = "idle"
    /\ wsReq = [sessionId |-> NoSessionId, valid |-> TRUE, serves |-> NoSessionId]
    /\ wsResponse = NoRouteResponse

\* A request without message, llmKey or apis is answered 400.
RouteRefuses ==
    /\ wsPc = "idle"
    /\ wsReq' = [sessionId |-> NoSessionId, valid |-> FALSE, serves |-> NoSessionId]
    /\ wsResponse' = [status |-> 400, sessionId |-> NoSessionId]
    /\ UNCHANGED <<wsSessions, wsIssued, wsPc>>

\* POST up to `await session.engine.chat(...)` for a sessionId the store
\* does not hold: a new engine and engine session, a new id, the store's
\* clean-up, and chat's first step, which adds the user message.
RouteCreates(id) ==
    /\ wsPc = "idle"
    /\ wsIssued < MaxCreatedSessions
    /\ (id = NoSessionId \/ StoreIndex(wsSessions, id) = 0)
    /\ LET newSessionId == wsIssued + 1
       IN  /\ wsIssued' = newSessionId
           /\ wsSessions' = EvictOldest(Append(wsSessions,
                                [id |-> newSessionId, history |-> <<"system", "user">>]))
           /\ wsReq' = [sessionId |-> id, valid |-> TRUE, serves |-> newSessionId]
    /\ wsPc' = "chat"
    /\ UNCHANGED wsResponse

\* POST up to the await for a sessionId the store holds: chat's first step
\* adds the user message to that engine session.
RouteReuses(id) ==
    /\ wsPc = "idle"
    /\ id # NoSessionId
    /\ StoreIndex(wsSessions, id) # 0
    /\ OthersServedOneTurn(wsSessions, id)
    /\ Len(wsSessions[StoreIndex(wsSessions, id)].history) < MaxHistory
    /\ wsSessions' = [wsSessions EXCEPT ![StoreIndex(wsSessions, id)].history =
                         Append(@, "user")]
    /\ wsReq' = [sessionId |-> id, valid |-> TRUE, serves |-> id]
    /\ wsPc' = "chat"
    /\ UNCHANGED <<wsIssued, wsResponse>>

\* engine.chat resolves: the assistant's answer is in the session, and the
\* response carries the id of the session that served the request.
RouteChatResolves ==
    /\ wsPc = "chat"
    /\ wsSessions' = [i \in 1..Len(wsSessions) |->
                         IF wsSessions[i].id = wsReq.serves
                         THEN [wsSessions[i] EXCEPT !.history = Append(@, "assistant")]
                         ELSE wsSessions[i]]
    /\ wsResponse' = [status |-> 200,
                      sessionId |-> IF wsReq.sessionId # NoSessionId
                                       /\ wsReq.serves = wsReq.sessionId
                                    THEN wsReq.sessionId ELSE wsReq.serves]
    /\ wsPc' = "idle"
    /\ UNCHANGED <<wsIssued, wsReq>>

\* engine.chat throws: the catch block answers with the error's status.
RouteChatThrows ==
    /\ wsPc = "chat"
    /\ OthersServedOneTurn(wsSessions, wsReq.serves)
    /\ wsResponse' = [status |-> 500, sessionId |-> NoSessionId]
    /\ wsPc' = "idle"
    /\ UNCHANGED <<wsSessions, wsIssued, wsReq>>

RouteNext ==
    \/ RouteRefuses /\ UNCHANGED nonRouteVars
    \/ \E id \in RequestSessionIds : RouteCreates(id) /\ UNCHANGED nonRouteVars
    \/ \E id \in RequestSessionIds : RouteReuses(id) /\ UNCHANGED nonRouteVars
    \/ RouteChatResolves /\ UNCHANGED nonRouteVars
    \/ RouteChatThrows /\ UNCHANGED nonRouteVars

\* What the backend may answer an llm.chat call with.
ModelStep(p) ==
    \/ \E r \in TextResponses : ModelAnswers(p, r)
    \/ ModelCallsTools(p, DefaultToolResponse)
    \/ \E r \in VariedToolResponses : varied < MaxVaried /\ ModelCallsTools(p, r)
    \/ ModelThrows(p)

\* An execute that executeAll started settles.
ToolStep(p) ==
    \/ \E k \in 1..2 : ToolResolves(p, k)
    \/ \E k \in 1..2 : ToolRejects(p, k)

EngineNext ==
    \/ \E n \in PluginNames : RegisterPlugin(n) /\ UNCHANGED nonEngineVars
    \/ CreateSession /\ UNCHANGED nonEngineVars
    \/ \E p \in Callers, s \in SessionIds :
          ChatUnknownSession(p, s) /\ UNCHANGED nonEngineVars
    \/ \E p \in Callers, s \in SessionIds, u \in UserInputs :
          ChatStart(p, s, u) /\ UNCHANGED nonEngineVars
    \/ \E p \in Callers, r \in TextResponses :
          ModelAnswers(p, r) /\ UNCHANGED nonEngineVars
    \/ \E p \in Callers :
          ModelCallsTools(p, DefaultToolResponse) /\ UNCHANGED nonEngineVars
    \/ \E p \in Callers, r \in VariedToolResponses :
          varied < MaxVaried /\ ModelCallsTools(p, r) /\ UNCHANGED nonEngineVars
    \/ \E p \in Callers : ModelThrows(p) /\ UNCHANGED nonEngineVars
    \/ \E p \in Callers, k \in 1..2 : ToolResolves(p, k) /\ UNCHANGED nonEngineVars
    \/ \E p \in Callers, k \in 1..2 : ToolRejects(p, k) /\ UNCHANGED nonEngineVars

Init ==
    /\ EngineInit /\ ProviderInit /\ ExecutorInit /\ RegistryInit /\ FunctionInit
    /\ CompiledActionInit
    /\ RouteInit

\* The engine, with chat calls that do not overlap.
Next == EngineNext

Spec == Init /\ [][Next]_vars

\* The backend answers every llm.chat call, and every execute that
\* executeAll started settles.
FairSpec ==
    /\ Spec
    /\ \A p \in Procs : WF_vars(ModelStep(p) /\ UNCHANGED nonEngineVars)
    /\ \A p \in Procs : WF_vars(ToolStep(p) /\ UNCHANGED nonEngineVars)

\* The responses with tool calls received over the run: each left one
\* assistant message with tool calls in a history.
ToolResponsesReceived ==
    Cardinality(UNION { { <<s, j>> : j \in { i \in 1..Len(messages[s]) :
                                               /\ messages[s][i].role = "assistant"
                                               /\ messages[s][i].hasToolCalls } } :
                        s \in SessionIds })

\* The engine with chat calls that overlap: a second chat call may start,
\* on any session, while the first awaits llm.chat or executeAll.  Every
\* tool execution resolves.
OverlapNext ==
    \/ CreateSession /\ UNCHANGED nonEngineVars
    \/ \E p \in Procs, s \in SessionIds, u \in UserInputs :
          ChatStart(p, s, u) /\ UNCHANGED nonEngineVars
    \/ \E p \in Procs, r \in TextResponses :
          ModelAnswers(p, r) /\ UNCHANGED nonEngineVars
    \/ \E p \in Procs :
          /\ ToolResponsesReceived < MaxOverlapToolResponses
          /\ ModelCallsTools(p, DefaultToolResponse)
          /\ UNCHANGED nonEngineVars
    \/ \E p \in Procs, r \in VariedToolResponses :
          /\ ToolResponsesReceived < MaxOverlapToolResponses
          /\ varied < MaxVaried
          /\ \A k \in 1..Len(r.toolCalls) : ~ExecuteRejects(r.toolCalls[k])
          /\ ModelCallsTools(p, r)
          /\ UNCHANGED nonEngineVars
    \/ \E p \in Procs : ModelThrows(p) /\ UNCHANGED nonEngineVars
    \/ \E p \in Procs, k \in 1..2 : ToolResolves(p, k) /\ UNCHANGED nonEngineVars

OverlapSpec == Init /\ [][OverlapNext]_vars

\* A PluginRegistry, alone or under an engine's constructor, with
\* parseToolName applied to the names of its tools.
RegistrySpec == Init /\ [][RegistryNext]_vars

\* parseToolName applied to one tool name after another.
CodecSpec == Init /\ [][CodecNext]_vars

\* compactJsonSchema applied to one schema after another.
CompactSpec == Init /\ [][CompactNext]_vars

SchemaSpec == Init /\ [][SchemaNext]_vars

SelectSpec == Init /\ [][SelectNext]_vars

CompiledActionSpec == Init /\ [][CompiledActionNext]_vars

RouteSpec == Init /\ [][RouteNext]_vars

\* One OpenAIProvider.chat call after another.
ProviderSpec == Init /\ [][ProviderNext]_vars

\* One ActionExecutor.execute call after another, on a registry that
\* plugins are added to.
ExecutorSpec == Init /\ [][ExecutorNext]_vars

(***************************************************************************)
(* Properties of AgentBridgeEngine.chat                                    *)
(***************************************************************************)

IsPrefix(a, b) == Len(a) <= Len(b) /\ SubSeq(b, 1, Len(a)) = a

CarriesToolCalls(r) == r.hasToolCalls /\ Len(r.toolCalls) > 0

Count(S) == Cardinality(S)

\* Tool-role messages of history h that carry id.
ToolMessagesWith(h, id) ==
    { j \in 1..Len(h) : h[j].role = "tool" /\ h[j].toolCallId = id }

\* Tool calls with id carried by the assistant messages of history h.
ToolCallsWith(h, id) ==
    { <<j, k>> \in (1..Len(h)) \X (1..2) :
        /\ h[j].role = "assistant"
        /\ h[j].hasToolCalls
        /\ k <= Len(h[j].toolCalls)
        /\ h[j].toolCalls[k].id = id }

IdsIn(h) ==
    { h[j].toolCallId : j \in { i \in 1..Len(h) : h[i].role = "tool" } }
        \cup { h[jk[1]].toolCalls[jk[2]].id :
                 jk \in { x \in (1..Len(h)) \X (1..2) :
                            /\ h[x[1]].role = "assistant"
                            /\ h[x[1]].hasToolCalls
                            /\ x[2] <= Len(h[x[1]].toolCalls) } }

\* C1: a chat call makes at most 10 llm.chat calls, and, the backend
\* answering and every tool execution settling, every chat call that is
\* waiting for the model comes to an end (it returns, or it rejects with
\* the rejection of llm.chat or of a tool execution).
C1_ChatTerminatesWithinCap ==
    /\ [](\A p \in Procs : nCalls[p] <= maxIterations)
    /\ \A p \in Procs :
          (pc[p] = "awaitModel") ~> (pc[p] \in {"returned", "thrown"})

\* A chat call has made its 10th llm.chat call, after 9 rounds of tools.
C1_Witness ==
    \E p \in Procs :
        pc[p] = "awaitModel" /\ nCalls[p] = maxIterations /\ nRounds[p] = 9

\* C2: when the model has returned tool calls on each of the first 10
\* responses of a turn, chat returns (it does not throw) the stuck text
\* after exactly 10 model calls and 10 rounds of tool execution.
C2_StuckAfterTenToolResponses ==
    \A p \in Procs :
        (/\ nResponses[p] = maxIterations
         /\ CarriesToolCalls(response[p])
         /\ ~Active(p))
        => /\ pc[p] = "returned"
           /\ result[p] = StuckText
           /\ nCalls[p] = maxIterations
           /\ nRounds[p] = maxIterations

\* C3: at every llm.chat call, the tool calls carried by the assistant
\* messages of the session and its tool-role messages pair off one to one by
\* id: for every id there are as many tool messages as tool calls, none
\* unanswered and none answered twice.
C3_EveryToolCallAnsweredOnce ==
    \A p \in Procs :
        pc[p] = "awaitModel" =>
            \A id \in IdsIn(messages[sid[p]]) :
                Count(ToolMessagesWith(messages[sid[p]], id))
                    = Count(ToolCallsWith(messages[sid[p]], id))

\* C4: every tool-role message follows, across tool-role messages only, an
\* assistant message that lists a tool call with its toolCallId.
C4_ToolMessageAnswersPrecedingAssistant ==
    \A s \in SessionIds :
        \A j \in 1..Len(messages[s]) :
            messages[s][j].role = "tool" =>
                \E a \in 1..(j - 1) :
                    /\ messages[s][a].role = "assistant"
                    /\ messages[s][a].hasToolCalls
                    /\ \A b \in (a + 1)..(j - 1) : messages[s][b].role = "tool"
                    /\ \E k \in 1..Len(messages[s][a].toolCalls) :
                          messages[s][a].toolCalls[k].id = messages[s][j].toolCallId

\* A second turn of a session has had a round of two tool calls answered.
C4_Witness ==
    \E s \in SessionIds :
        /\ Len(messages[s]) >= 7
        /\ messages[s][4].role = "user"
        /\ messages[s][6].role = "tool"
        /\ messages[s][7].role = "tool"

\* C5: the history of a session only grows at its end: what it held before
\* a step is a prefix of what it holds after it.
C5_HistoryAppendOnly ==
    [][\A s \in SessionIds : IsPrefix(messages[s], messages'[s])]_vars

\* A second chat call on a session has ended with its answer appended
\* after the messages of the first.
C5_Witness ==
    \E p \in Procs :
        /\ pc[p] = "returned"
        /\ Len(messages[sid[p]]) = 5
        /\ messages[sid[p]][2].role = "user"
        /\ messages[sid[p]][4].role = "user"
        /\ messages[sid[p]][5].role = "assistant"

\* C6: a response without tool calls (the field absent or an empty list)
\* makes chat append exactly one assistant message with the response text,
\* or 'I have nothing to say.' for an absent text, start no execution,
\* make no further llm.chat call and return that text.
C6_TextResponseEndsTurn ==
    [][\A p \in Procs :
          (nResponses'[p] = nResponses[p] + 1 /\ ~CarriesToolCalls(response'[p]))
          => LET text == IF response'[p].text = NoText
                         THEN "I have nothing to say."
                         ELSE response'[p].text
             IN  /\ messages'[sid[p]] =
                        Append(messages[sid[p]],
                               [role |-> "assistant", content |-> text,
                                toolCallId |-> NoId, hasToolCalls |-> FALSE,
                                toolCalls |-> <<>>])
                 /\ result'[p] = text
                 /\ pc'[p] = "returned"
                 /\ nExecs'[p] = nExecs[p]
                 /\ nCalls'[p] = nCalls[p]
                 /\ modelCalls' = modelCalls]_vars

\* chat has returned the fallback text for a response with neither text
\* nor tool calls.
C6_Witness ==
    \E p \in Procs :
        /\ pc[p] = "returned"
        /\ nResponses[p] = 1
        /\ response[p].text = NoText
        /\ result[p] = NothingToSay

\* C7: every llm.chat call of an engine configured with maxToolsPerTurn = k
\* receives at most k tool definitions.
C7_ToolsWithinMaxToolsPerTurn ==
    \A p \in Procs : nCalls[p] > 0 => Len(tools[p]) <= maxTools

(***************************************************************************)
(* Properties of OpenAIProvider.chat                                       *)
(***************************************************************************)

ProviderDone == pvPc \in {"returned", "thrown"}

\* The requests of the whole ladder for n tools.
Ladder(n) ==
    << [i \in 1..n |-> i],
       [i \in 1..(IF n \div 2 >= 1 THEN n \div 2 ELSE 1) |-> i],
       <<>> >>

\* C8: with n > 0 tools and a first request rejected with 400 or 413, the
\* requests sent are, in this order, all n tools, the first
\* max(1, floor(n/2)) tools and no tools; a request is sent only after the
\* attempt before it failed; the first attempt that succeeds is what chat
\* returns, and chat throws only after three failed attempts.
C8_FallbackLadder ==
    (/\ Len(pvTools) > 0
     /\ Len(pvErrors) >= 1
     /\ pvErrors[1].status \in {400, 413})
    => /\ Len(pvRequests) <= 3
       /\ IsPrefix(pvRequests, Ladder(Len(pvTools)))
       /\ Len(pvRequests) <= Len(pvErrors) + 1
       /\ (pvPc = "returned" =>
              /\ pvResult.kind = "response"
              /\ pvResult.attempt = Len(pvRequests)
              /\ Len(pvErrors) = Len(pvRequests) - 1)
       /\ (pvPc = "thrown" => Len(pvErrors) = 3 /\ Len(pvRequests) = 3)
       /\ (~ProviderDone => Len(pvRequests) = Len(pvErrors) + 1)

\* chat with three tools has returned the response of the request without
\* tools, after a 413 and a failed request with one tool.
C8_Witness ==
    /\ pvPc = "returned"
    /\ Len(pvTools) = 3
    /\ pvRequests = <<<<1, 2, 3>>, <<1>>, <<>>>>
    /\ Len(pvErrors) = 2
    /\ pvErrors[1].status = 413
    /\ pvResult.attempt = 3

\* C9: a 401 or 429 failure of any request of a chat call, the first or a
\* retry, is thrown to the caller; it is never dropped or replaced by an
\* answer.
C9_AuthAndQuotaFailuresPropagate ==
    (ProviderDone /\ \E i \in 1..Len(pvErrors) : pvErrors[i].status \in {401, 429})
        => pvPc = "thrown"

\* C10: when the first request fails with a status other than 400 and 413,
\* or was sent with an empty tool list, chat makes exactly one request and
\* throws.
C10_OnlyToolEnabledSizeClassRetried ==
    (/\ Len(pvErrors) >= 1
     /\ (pvErrors[1].status \notin {400, 413} \/ Len(pvTools) = 0))
    => /\ pvPc = "thrown"
       /\ Len(pvRequests) = 1
       /\ pvResult.kind = "error"

\* chat without tools has thrown after one request that failed with 413.
C10_Witness ==
    /\ pvPc = "thrown"
    /\ Len(pvTools) = 0
    /\ Len(pvRequests) = 1
    /\ pvErrors[1].status = 413

\* C11: when chat throws, every attempt it made has failed, and what it
\* throws is a normalized error whose status is the numeric status of the
\* failure that made it fail (the first one, whatever the retries failed
\* with), or 500 when that failure has no numeric status.
C11_ThrownErrorCarriesStatus ==
    pvPc = "thrown"
    => /\ Len(pvErrors) = Len(pvRequests)
       /\ pvResult.kind = "error"
       /\ pvResult.status \in {400, 401, 413, 429, 500}
       /\ pvResult.status =
              (IF pvErrors[1].status = 0 THEN 500 ELSE pvErrors[1].status)

\* All three attempts have failed, with 400, with 429 and with an error
\* without a status, and chat has thrown.
C11_Witness ==
    /\ pvPc = "thrown"
    /\ Len(pvErrors) = 3
    /\ pvErrors[1].status = 400
    /\ pvErrors[2].status = 429
    /\ pvErrors[3].status = NoStatus
    /\ pvResult.status = 400

(***************************************************************************)
(* Properties of executeAll inside a turn                                  *)
(***************************************************************************)

\* C15: when a response carries tool calls, execute is started for
\* every one of them in the step that receives the response, before any
\* result is awaited; and in whatever order the executions complete, chat
\* appends tool messages, calls llm.chat again or returns only in a step in
\* which the last of them completes, and then appends one message per call.
C15_FanOutThenJoin ==
    [][\A p \in Procs :
          /\ (nResponses'[p] = nResponses[p] + 1 /\ CarriesToolCalls(response'[p]))
             => /\ nExecs'[p] = nExecs[p] + Len(response'[p].toolCalls)
                /\ settled'[p] = <<>>
                /\ pc'[p] = "awaitTools"
          /\ (/\ pc[p] = "awaitTools"
              /\ \/ messages'[sid[p]] # messages[sid[p]]
                 \/ nCalls'[p] # nCalls[p]
                 \/ pc'[p] \in {"awaitModel", "returned"})
             => /\ { settled'[p][i] : i \in 1..Len(settled'[p]) }
                       = 1..Len(response[p].toolCalls)
                /\ Len(settled'[p]) = Len(settled[p]) + 1
                /\ Len(messages'[sid[p]])
                       = Len(messages[sid[p]]) + Len(response[p].toolCalls)]_vars

\* A round of two tool calls has been joined after the second call
\* completed first, and llm.chat has been called again with the two
\* tool messages in the order of the calls.
C15_Witness ==
    \E p \in Procs :
        /\ pc[p] = "awaitModel"
        /\ nRounds[p] = 1
        /\ settled[p] = <<2, 1>>
        /\ Len(messages[sid[p]]) = 5
        /\ messages[sid[p]][4].toolCallId = "call_b"
        /\ messages[sid[p]][5].toolCallId = "call_a"

\* C16: with chat calls that overlap, on the same session too, every
\* assistant message with tool calls is followed in its history by the
\* tool messages of its own calls, in their order and as far as the
\* history goes, with no message of another turn before or between them.
C16_ToolResultsFollowTheirCall ==
    \A s \in SessionIds :
        \A a \in 1..Len(messages[s]) :
            (messages[s][a].role = "assistant" /\ messages[s][a].hasToolCalls)
            => \A k \in 1..Len(messages[s][a].toolCalls) :
                   a + k <= Len(messages[s])
                   => /\ messages[s][a + k].role = "tool"
                      /\ messages[s][a + k].toolCallId
                             = messages[s][a].toolCalls[k].id

(***************************************************************************)
(* Properties of ActionExecutor.execute                                    *)
(***************************************************************************)

\* A step in which execute is called and runs up to its first await.
ExecuteStep == exPc # "running" /\ executorVars' # executorVars

\* The registry holds an action a of a plugin p.
RegistryHolds(p, a) ==
    \E i \in 1..Len(plugins) :
        /\ plugins[i] = p
        /\ \E j \in 1..Len(ActionsOfPlugin(p)) : ActionsOfPlugin(p)[j] = a

\* C12: a call of execute for a (pluginName, actionName) the registry has
\* no action for, a name left undefined included, resolves at once (it does
\* not reject) to a ToolResult with success = false and the id of the call,
\* and invokes no action.
C12_UnknownActionResolvesFailed ==
    [][(ExecuteStep /\ ~RegistryHolds(exCall'.pluginName, exCall'.actionName))
          => /\ exPc' = "resolved"
             /\ exResult'.toolCallId = exCall'.id
             /\ exResult'.success = FALSE
             /\ exInvoked' = <<>>]_vars

\* execute has resolved a call of a registered plugin whose action name is
\* undefined.
C12_Witness ==
    /\ exPc = "resolved"
    /\ exCall.id = "call_b"
    /\ exCall.pluginName = "files"
    /\ exCall.actionName = UndefinedName
    /\ exResult = [toolCallId |-> "call_b", success |-> FALSE,
                   message |-> "Unknown action: "]
    /\ exInvoked = <<>>

\* C13: a call of execute for a registered action with parameters its
\* schema refuses resolves to a failed ToolResult whose message starts with
\* 'Invalid parameters: ', and action.execute is never invoked with
\* parameters the schema refuses.
C13_InvalidParametersNeverExecuted ==
    /\ [](\A i \in 1..Len(exInvoked) : exInvoked[i] # "invalid")
    /\ [][(/\ ExecuteStep
           /\ RegistryHolds(exCall'.pluginName, exCall'.actionName)
           /\ exCall'.parameters = "invalid")
          => /\ exPc' = "resolved"
             /\ exResult' = [toolCallId |-> exCall'.id, success |-> FALSE,
                             message |-> "Invalid parameters: "]
             /\ exInvoked' = <<>>]_vars

\* execute has refused the parameters of a call of notes.list.
C13_Witness ==
    /\ exPc = "resolved"
    /\ exCall.pluginName = "notes"
    /\ exCall.actionName = "list"
    /\ exCall.parameters = "invalid"
    /\ exResult.message = "Invalid parameters: "
    /\ exInvoked = <<>>

\* C14: whatever value an action's execute throws or rejects with, execute
\* resolves to a failed ToolResult 'Action failed: <reason>' with the id of
\* the call; execute never rejects.
C14_ExecuteNeverRejects ==
    /\ exPc # "rejected"
    /\ (exPc = "resolved" => exResult.toolCallId = exCall.id)

(***************************************************************************)
(* Properties of PluginRegistry                                            *)
(***************************************************************************)

\* The registry holds a plugin under the name.
Registered(name) == \E i \in 1..Len(rgPlugins) : rgPlugins[i].name = name

\* C17: a register call for a plugin whose name the registry already
\* holds rejects with an error that names the plugin, invokes no setup hook
\* and leaves getAllPlugins() and toLLMTools() as they were.
C17_DuplicateRegisterRejects ==
    [][(rgCalls' = rgCalls + 1 /\ Registered(rgLast'.plugin.name))
          => /\ rgLast'.outcome = "rejected"
             /\ rgLast'.error = rgLast'.plugin.name
             /\ rgSetups' = rgSetups
             /\ rgPending' = rgPending
             /\ GetAllPlugins' = GetAllPlugins
             /\ RgToLLMTools(rgPlugins') = RgToLLMTools(rgPlugins)]_vars

\* register has rejected a second plugin named "a", one with a setup hook
\* and other actions, and the registry holds the first with its two tools.
C17_Witness ==
    /\ rgCtor.state = "none"
    /\ rgLast.outcome = "rejected"
    /\ rgLast.error = <<"a">>
    /\ rgLast.plugin.setup
    /\ rgSetups = 0
    /\ Len(rgPlugins) = 1
    /\ rgPlugins[1].name = <<"a">>
    /\ ~rgPlugins[1].setup
    /\ Len(RgToLLMTools(rgPlugins)) = 2

\* C18: constructing an engine whose config.plugins holds two plugins with
\* one name fails: the constructor throws to its caller instead of
\* returning an engine.
C18_DuplicateConfigFailsConstruction ==
    (/\ rgCtor.state # "none"
     /\ \E i, j \in 1..Len(rgCtor.plugins) :
            i < j /\ rgCtor.plugins[i].name = rgCtor.plugins[j].name)
    => rgCtor.state = "threw"

\* C19: the names of the tools toLLMTools() returns are pairwise distinct.
C19_ToolNamesDistinct ==
    \A i, j \in 1..Len(RgToLLMTools(rgPlugins)) :
        i # j => RgToLLMTools(rgPlugins)[i].name # RgToLLMTools(rgPlugins)[j].name

\* C20: parseToolName applied to the name of a tool of toLLMTools() returns
\* the plugin name and the action name the tool was made from.
C20_ParseInvertsEncode ==
    rgParsed.result.kind # "none"
    => /\ rgParsed.result.kind = "parsed"
       /\ rgParsed.result.pluginName = rgParsed.plugin
       /\ rgParsed.result.actionName = rgParsed.action

\* The place of the first "__" of a name, 0 when it has none.
FirstSep(t) ==
    LET at == { i \in 1..(Len(t) - 1) : t[i] = "_" /\ t[i + 1] = "_" }
    IN  IF at = {} THEN 0 ELSE CHOOSE i \in at : \A j \in at : i <= j

\* A name without "__", or with nothing before or nothing after its first
\* "__".
Malformed(t) ==
    \/ FirstSep(t) = 0
    \/ FirstSep(t) = 1
    \/ FirstSep(t) + 1 = Len(t)

\* C21: parseToolName throws for every tool name that lacks the "__"
\* separator or has an empty plugin component or an empty action component.
C21_MalformedNameThrows ==
    (fnCall.fn = "parseToolName" /\ Malformed(fnCall.arg))
    => fnCall.result.kind = "throws"

\* parseToolName has thrown for "a__", a name with an empty action
\* component.
C21_Witness ==
    /\ fnCall.fn = "parseToolName"
    /\ fnCall.arg = <<"a", "_", "_">>
    /\ fnCall.result.kind = "throws"

(***************************************************************************)
(* Properties of compactJsonSchema                                         *)
(***************************************************************************)

EssentialKeys == {"type", "required", "items", "enum"}

\* At every nesting level of b that a still has, a holds the keys type,
\* required, items and enum that b holds, with the values b has.
RECURSIVE EssentialUnchanged(_, _)
EssentialUnchanged(b, a) ==
    IF b.t = "obj" /\ a.t = "obj"
    THEN /\ \A k \in (DOMAIN b.v) \cap EssentialKeys :
                k \in DOMAIN a.v /\ a.v[k] = b.v[k]
         /\ \A k \in (DOMAIN b.v) \cap (DOMAIN a.v) : EssentialUnchanged(b.v[k], a.v[k])
    ELSE IF b.t = "arr" /\ a.t = "arr"
    THEN /\ Len(a.v) = Len(b.v)
         /\ \A i \in 1..Len(b.v) : EssentialUnchanged(b.v[i], a.v[i])
    ELSE a = b

\* At every nesting level of b that a still has, a has lost no key other
\* than description, default, examples, title, $id and $comment, it holds
\* type, required and enum with the values b has, and what it holds under
\* items relates to what b holds there in the same way.
RECURSIVE EssentialKept(_, _)
EssentialKept(b, a) ==
    IF b.t = "obj" /\ a.t = "obj"
    THEN /\ (DOMAIN a.v) \subseteq (DOMAIN b.v)
         /\ (DOMAIN b.v) \ (DOMAIN a.v)
                \subseteq {"description", "default", "examples", "title", "$id", "$comment"}
         /\ \A k \in (DOMAIN b.v) \cap {"type", "required", "enum"} :
                k \in DOMAIN a.v /\ a.v[k] = b.v[k]
         /\ \A k \in (DOMAIN b.v) \cap (DOMAIN a.v) : EssentialKept(b.v[k], a.v[k])
    ELSE IF b.t = "arr" /\ a.t = "arr"
    THEN /\ Len(a.v) = Len(b.v)
         /\ \A i \in 1..Len(b.v) : EssentialKept(b.v[i], a.v[i])
    ELSE a = b

C23_CompactionKeepsProperties ==
    (fnCall.fn = "compactJsonSchema" /\ "properties" \in DOMAIN fnCall.arg.v)
    => /\ "properties" \in DOMAIN fnCall.result.v
       /\ DOMAIN fnCall.arg.v.properties.v \subseteq DOMAIN fnCall.result.v.properties.v
       /\ \A i \in 1..Len(fnCall.result.v.required.v) :
              fnCall.result.v.required.v[i].v \in DOMAIN fnCall.result.v.properties.v

\* Every node of the JSON value whose type is array has items.
RECURSIVE ArraysCarryItems(_)
ArraysCarryItems(node) ==
    IF node.t = "arr"
    THEN \A i \in 1..Len(node.v) : ArraysCarryItems(node.v[i])
    ELSE IF node.t = "obj"
    THEN /\ ("type" \in DOMAIN node.v /\ node.v["type"] = PrimNode("array"))
              => "items" \in DOMAIN node.v
         /\ \A k \in DOMAIN node.v : ArraysCarryItems(node.v[k])
    ELSE TRUE

\* C24: every array-typed node of a tool schema returned by toLLMTools,
\* and of a parameter shape registered by the MCP server, carries items.
C24_ArraysCarryItems ==
    fnCall.fn \in {"toLLMTools", "createMCPServer"} => ArraysCarryItems(fnCall.result)

\* The MCP server's half of C24, which holds.
C24_McpArraysCarryItems ==
    fnCall.fn = "createMCPServer" => ArraysCarryItems(fnCall.result)
\* The number of actions of the plugins ps.
RECURSIVE TotalTools(_)
TotalTools(ps) ==
    IF ps = <<>> THEN 0 ELSE Len(Head(ps).actions) + TotalTools(Tail(ps))

\* The list holds one tool for every action of every plugin of ps, and
\* nothing else.
AllToolsOnce(picked, ps) ==
    /\ Len(picked) = TotalTools(ps)
    /\ \A i \in 1..Len(ps) : \A j \in 1..Len(ps[i].actions) :
          Cardinality({ k \in 1..Len(picked) :
              /\ picked[k].plugin = ps[i].name
              /\ picked[k].name = ps[i].name \o <<"_", "_">> \o ps[i].actions[j].name }) = 1

SelectReturned == fnCall.fn = "selectLLMTools" /\ fnCall.result.kind = "returned"

\* C25 as stated: for every input and every integer maxTools,
\* selectLLMTools returns at most maxTools tools, and all tools, each
\* once, when there are at most maxTools of them.
C25_SelectReturnsAtMostMaxTools ==
    SelectReturned =>
        /\ Len(fnCall.result.tools) <= fnCall.arg.maxTools
        /\ TotalTools(fnCall.arg.plugins) <= fnCall.arg.maxTools
              => AllToolsOnce(fnCall.result.tools, fnCall.arg.plugins)

\* C25: for every input and every maxTools of at least 1, selectLLMTools
\* returns at most maxTools tools; it returns all tools, each once, when
\* there are at most maxTools of them, and also when maxTools is 0 or
\* negative.
C25_SelectBoundedForPositiveMaxTools ==
    SelectReturned =>
        /\ fnCall.arg.maxTools >= 1 => Len(fnCall.result.tools) <= fnCall.arg.maxTools
        /\ (TotalTools(fnCall.arg.plugins) <= fnCall.arg.maxTools \/ fnCall.arg.maxTools <= 0)
              => AllToolsOnce(fnCall.result.tools, fnCall.arg.plugins)

C25_Witness ==
    /\ SelectReturned
    /\ fnCall.arg.maxTools = 2
    /\ TotalTools(fnCall.arg.plugins) > 2
    /\ Len(fnCall.result.tools) = 2

\* The plugins of ps whose name occurs in the input.
NamedInInput(ps, userInput) ==
    { ps[i].name : i \in { j \in 1..Len(ps) :
                            Includes(ToLowerCase(userInput), ToLowerCase(ps[j].name)) } }

\* The tools of the plugins ps, with their scores.
ScoredTools(ps, userInput) ==
    LET all == DescribedTools(ps)
    IN  { [tool |-> all[i], score |-> Score(all[i], ps, userInput)] : i \in 1..Len(all) }

ScoreIn(tool, call) == Score(tool, call.plugins, call.userInput)

\* The result lists the tools of mentioned plugins first and by falling
\* score, and holds a tool of another plugin only with every tool of the
\* mentioned plugins.
MentionedFirst(picked, call) ==
    LET named == NamedInInput(call.plugins, call.userInput)
        all == DescribedTools(call.plugins)
    IN  /\ \A k \in 1..Len(picked) : \A l \in (k + 1)..Len(picked) :
              /\ ~(picked[k].plugin \notin named /\ picked[l].plugin \in named)
              /\ (picked[k].plugin \in named /\ picked[l].plugin \in named)
                    => ScoreIn(picked[k], call) >= ScoreIn(picked[l], call)
        /\ (\E k \in 1..Len(picked) : picked[k].plugin \notin named)
              => \A i \in 1..Len(all) : all[i].plugin \in named
                    => \E k \in 1..Len(picked) : picked[k] = all[i]

\* The result is the maxTools best tools: by falling score, equal scores
\* by name, and no tool left out goes before one that is in.
TopByScore(picked, call) ==
    LET all == DescribedTools(call.plugins)
        Entry(t) == [tool |-> t, score |-> ScoreIn(t, call)]
    IN  /\ Len(picked) = call.maxTools
        /\ \A k \in 1..Len(picked) : \A l \in (k + 1)..Len(picked) :
              ~ScoredBefore(Entry(picked[l]), Entry(picked[k]))
        /\ \A i \in 1..Len(all) :
              (\A k \in 1..Len(picked) : picked[k] # all[i])
                 => \A k \in 1..Len(picked) : ~ScoredBefore(Entry(all[i]), Entry(picked[k]))

SelectionNeeded ==
    /\ fnCall.arg.maxTools >= 1
    /\ TotalTools(fnCall.arg.plugins) > fnCall.arg.maxTools

\* C26: when the input mentions a registered plugin and there are more
\* tools than maxTools, the tools of mentioned plugins come first by
\* falling score and another plugin's tool is in only with all of theirs;
\* when no plugin is mentioned the result is the maxTools best tools by
\* score, equal scores by name.
C26_MentionedPluginsFirst ==
    (SelectReturned /\ SelectionNeeded) =>
        IF NamedInInput(fnCall.arg.plugins, fnCall.arg.userInput) # {}
        THEN MentionedFirst(fnCall.result.tools, fnCall.arg)
        ELSE TopByScore(fnCall.result.tools, fnCall.arg)

\* C26 holds when no plugin name holds "__" and the plugins the code takes
\* as mentioned are the ones named in the input.
C26_MentionedFirstWhenDetected ==
    (/\ SelectReturned
     /\ \A i \in 1..Len(fnCall.arg.plugins) : Len(Split(fnCall.arg.plugins[i].name)) = 1
     /\ MentionedPlugins(fnCall.arg.plugins, fnCall.arg.userInput)
           = { ToLowerCase(n) : n \in NamedInInput(fnCall.arg.plugins, fnCall.arg.userInput) })
        => C26_MentionedPluginsFirst
\* The request of the action has been handed to fetch: the one request, or
\* the one after the /me call.
ActionRequestSent ==
    /\ acPc \in {"fetch", "done"}
    /\ Len(acRequests) = (IF SpotifyHook(acCall) /\ PlaceholderLike(acCall.params)
                          THEN 2 ELSE 1)

ActionRequest == acRequests[Len(acRequests)]

\* The places of the request that hold something for the parameter name;
\* a header counts when it is not as the injection of the defaults and the
\* credentials left it.
Places(req, name) ==
    (IF \E i \in 1..Len(req.path) :
           acCall.action.path[i] = "{" \o name \o "}" /\ req.path[i] # acCall.action.path[i]
     THEN {"path"} ELSE {})
    \cup (IF name \in KeySet(req.query) THEN {"query"} ELSE {})
    \cup (IF /\ name \in KeySet(req.headers)
              /\ \/ name \notin KeySet(AuthHeaders(acCall))
                 \/ GetKey(req.headers, name) # GetKey(AuthHeaders(acCall), name)
          THEN {"header"} ELSE {})
    \cup (IF name \in KeySet(req.bodyParams) THEN {"body"} ELSE {})

\* The parameter d, supplied with value, is where d.in says, with its value,
\* once, and nowhere else.
PlacedWhereDeclared(req, d, value) ==
    /\ Places(req, d.name) = {d.in}
    /\ d.in = "path" =>
          \E i \in 1..Len(req.path) :
              /\ acCall.action.path[i] = "{" \o d.name \o "}"
              /\ req.path[i] = "a%20b"
    /\ d.in = "query" =>
          /\ Cardinality({ i \in 1..Len(req.query) : req.query[i].name = d.name }) = 1
          /\ GetKey(req.query, d.name) = "a+b"
    /\ d.in = "header" =>
          /\ Cardinality({ i \in 1..Len(req.headers) : req.headers[i].name = d.name }) = 1
          /\ GetKey(req.headers, d.name) = value
    /\ d.in = "body" =>
          /\ Cardinality({ i \in 1..Len(req.bodyParams) : req.bodyParams[i].name = d.name }) = 1
          /\ GetKey(req.bodyParams, d.name) = value

DeclaredNames == { acCall.action.parameters[i].name : i \in 1..Len(acCall.action.parameters) }

\* Routing holds for the parameter definitions that satisfy Applies.
RoutedAsDeclared(Applies(_)) ==
    /\ \A i \in 1..Len(acCall.action.parameters) :
          LET d == acCall.action.parameters[i]
          IN  Applies(d) =>
                 IF d.name \in DOMAIN acCall.params
                 THEN PlacedWhereDeclared(ActionRequest, d, acCall.params[d.name])
                 ELSE Places(ActionRequest, d.name) = {}
    /\ \A n \in (DOMAIN acCall.params) \ DeclaredNames : Places(ActionRequest, n) = {}

HookRewrites(d) ==
    \/ SpotifyHook(acCall) /\ d.name = "user_id"
    \/ GmailHook(acCall) /\ d.in = "body"

C28_BodyOnlyForMutatingMethods ==
    \A i \in 1..Len(acRequests) :
        /\ acRequests[i].hasBody <=>
              (acRequests[i].method \in {"POST", "PUT", "PATCH"}
                 /\ acRequests[i].bodyParams # <<>>)
        /\ acRequests[i].hasBody => acRequests[i].body = acRequests[i].bodyParams
        /\ ~acRequests[i].hasBody => acRequests[i].body = <<>>

C28_Witness ==
    /\ ActionRequestSent
    /\ ActionRequest.method = "DELETE"
    /\ "b" \in KeySet(ActionRequest.bodyParams)
    /\ ~ActionRequest.hasBody

\* The Authorization header of the request is `Bearer token`; no header
\* when token is "".
BearerIs(req, token) ==
    IF token = ""
    THEN "Authorization" \notin KeySet(req.headers)
    ELSE /\ "Authorization" \in KeySet(req.headers)
         /\ GetKey(req.headers, "Authorization") = "Bearer " \o token

\* The caller passes a value for a parameter the action declares in=header
\* under the name of the header the credentials go to.
SuppliesAuthHeader(call) ==
    /\ AuthHeaderName(call) \in DOMAIN call.params
    /\ \E k \in 1..Len(call.action.parameters) :
          /\ call.action.parameters[k].in = "header"
          /\ call.action.parameters[k].name = AuthHeaderName(call)

\* A request of an oauth2 manifest with credentials, whose Authorization
\* header no parameter of the call overwrites (C39).
OAuthRequestSent ==
    /\ ActionRequestSent
    /\ acCall.manifest.auth = "oauth2"
    /\ acCall.credentials.given
    /\ ~SuppliesAuthHeader(acCall)

\* C29 as stated: for oauth2 the bearer token is the nested
\* oauth.access_token when there is one, and the top-level access token
\* only when there is none.
C29_NestedTokenFirst ==
    OAuthRequestSent =>
        LET c == acCall.credentials
        IN  /\ c.oauth_access_token # Undefined => BearerIs(ActionRequest, c.oauth_access_token)
            /\ (c.oauth_access_token = Undefined /\ c.access_token # Undefined)
                  => BearerIs(ActionRequest, c.access_token)

\* C29: for oauth2 the bearer token is the top-level access_token when there
\* is one, else the nested oauth.access_token, else the top-level token;
\* an empty token gives no Authorization header.
C29_TopLevelTokenFirst ==
    OAuthRequestSent =>
        LET c == acCall.credentials
        IN  BearerIs(ActionRequest,
                IF c.access_token # Undefined THEN c.access_token
                ELSE IF c.oauth_access_token # Undefined THEN c.oauth_access_token
                ELSE IF c.token # Undefined THEN c.token ELSE "")

C29_Witness ==
    /\ OAuthRequestSent
    /\ acCall.credentials.access_token = "top"
    /\ acCall.credentials.oauth_access_token = "nested"
    /\ GetKey(ActionRequest.headers, "Authorization") = "Bearer top"

\* C30: execute of a compiled action never rejects; when it ends it has
\* resolved to an ActionResult.
C30_CompiledExecuteNeverRejects ==
    (acPc = "done" /\ acCall.via = "createAction") => acResult.kind = "ActionResult"

\* A step that ends execute before the action's own request: the Gmail
\* convenience refuses, or the /me lookup gives no id or fails.
HookEnds == acPc # "fetch" /\ acPc' = "done"

OnlyMeRequests(reqs) == \A i \in 1..Len(reqs) : reqs[i].path = <<"/me">>

\* C31: when a hook cannot go on (gmail without raw and recipient, spotify
\* whose /me lookup fails or gives no id) execute returns success=false and
\* no request goes to the action's endpoint.
C31_HooksFailClosed ==
    [][HookEnds => /\ acResult'.kind = "ActionResult"
                   /\ ~acResult'.success
                   /\ OnlyMeRequests(acRequests')]_vars

\* The half of C31 that holds: no request goes to the action's endpoint.
C31_HooksIssueNoRequest ==
    [][HookEnds => OnlyMeRequests(acRequests')]_vars

\* C32: a step of a running execute, whatever its outcome, leaves the
\* manifest, the action with its parameter definitions, the credential
\* record and the caller's parameter object as they were.
C32_ExecuteLeavesInputsUnchanged ==
    [][(acPc \in {"me", "fetch"}) => (acCall' = acCall)]_vars

\* The Spotify hook has put the looked-up id in the request, and the
\* caller's parameter object still has no user_id.
C32_Witness ==
    /\ acPc \in {"fetch", "done"}
    /\ Len(acRequests) = 2
    /\ acRequests[2].path = <<"/users/", "me1", "/playlists">>
    /\ "user_id" \notin DOMAIN acCall.params

\* What the function manifestToPlugin makes for the action hands to fetch
\* first when called with the same manifest, parameters and credentials;
\* <<>> when it issues no request.
PluginFirstRequest(call) ==
    LET same == [call EXCEPT !.via = "createAction"]
    IN  IF SpotifyHook(same) /\ PlaceholderLike(same.params) THEN <<MeRequest(same)>>
        ELSE IF GmailRefuses(same) THEN <<>>
        ELSE <<MainRequest(same, same.params)>>

ServedByMcp == acCall.via = "executeAction" /\ acPc \in {"fetch", "done"}

\* C33: an action invoked through the MCP server issues the request the
\* function made by manifestToPlugin issues for it, and calls no model.
C33_McpIssuesPluginRequest ==
    ServedByMcp => (acRequests = PluginFirstRequest(acCall) /\ modelCalls = 0)

\* C33 for the actions that have no enrichment hook.
C33_McpIssuesPluginRequestWithoutHook ==
    (ServedByMcp /\ acCall.manifest.name = "api") => C33_McpIssuesPluginRequest

\* A request starts a session: randomUUID gave an id.
RouteCreated == wsIssued' # wsIssued

\* C34: the store never holds more than 100 sessions, and an insertion
\* that would exceed the maximum removes the oldest-inserted session and
\* no other, the new session staying last; below the maximum nothing is
\* removed.
C34_SessionStoreCapped ==
    [][/\ Len(wsSessions') <= MaxStoredSessions
       /\ RouteCreated =>
             StoredIds(wsSessions') =
               Append(IF Len(wsSessions) = MaxStoredSessions
                      THEN Tail(StoredIds(wsSessions))
                      ELSE StoredIds(wsSessions),
                      wsIssued')]_vars

\* More sessions were created than the store holds: the store is full,
\* its first entry is the oldest one not evicted and its last the newest.
C34_Witness ==
    /\ wsIssued > MaxStoredSessions
    /\ Len(wsSessions) = MaxStoredSessions
    /\ wsSessions[1].id = wsIssued - MaxStoredSessions + 1
    /\ wsSessions[Len(wsSessions)].id = wsIssued

\* The store holds a session under this id.
Stored(id) == \E i \in 1..Len(wsSessions) : wsSessions[i].id = id

\* The history of the stored session with this id.
HistoryOf(store, id) == store[CHOOSE i \in 1..Len(store) : store[i].id = id].history

\* C40: a valid request whose sessionId the store does not hold (never
\* given, or evicted) starts a session under an id never given before, with
\* the system message and the user turn as its history; one whose
\* sessionId the store holds adds the user turn to that session and
\* leaves the order of the store as it was; and the response to an
\* answered chat carries the id of the session that served the request.
C40_UnknownIdGetsNewSession ==
    [][/\ (wsPc = "idle" /\ wsPc' = "chat") =>
             IF Stored(wsReq'.sessionId)
             THEN /\ wsReq'.serves = wsReq'.sessionId
                  /\ wsIssued' = wsIssued
                  /\ StoredIds(wsSessions') = StoredIds(wsSessions)
                  /\ HistoryOf(wsSessions', wsReq'.sessionId) =
                        Append(HistoryOf(wsSessions, wsReq'.sessionId), "user")
             ELSE /\ wsReq'.serves = wsIssued'
                  /\ wsIssued' > wsIssued
                  /\ wsReq'.serves # wsReq'.sessionId
                  /\ ~Stored(wsReq'.serves)
                  /\ wsSessions'[Len(wsSessions')] =
                        [id |-> wsReq'.serves, history |-> <<"system", "user">>]
       /\ (wsPc = "chat" /\ wsResponse'.status = 200) =>
             wsResponse'.sessionId = wsReq.serves]_vars

\* A request carried the id of the first session after its eviction, and
\* was answered by a new session, whose id the response carries.
C40_Witness ==
    /\ wsPc = "idle"
    /\ wsReq.sessionId = 1
    /\ wsIssued > MaxStoredSessions
    /\ wsReq.serves = wsIssued
    /\ wsResponse = [status |-> 200, sessionId |-> wsIssued]
    /\ wsSessions[Len(wsSessions)] = [id |-> wsIssued, history |-> OneTurn]
    /\ wsSessions[1].id # 1

\* C35: of two register calls for one plugin name that overlap, one
\* succeeds and the other rejects with the collision error.  A call that
\* waits for its setup hook is past the only place that throws that error
\* and sets its plugin when the hook resolves, so no two waiting calls
\* carry one name.
C35_OverlappingRegistersCollide ==
    \A i, j \in 1..Len(rgPending) :
        i # j => rgPending[i].name # rgPending[j].name

\* getAllPlugins() of a registry holding ps returns the plugin object; the
\* system prompt of createSession and the tools of chat are made from what
\* getAllPlugins() returns.
Visible(ps, pl) == \E i \in 1..Len(ps) : ps[i] = pl

ConstructorReturns == rgCtor.state = "none" /\ rgCtor'.state = "returned"

\* C36: when the constructor returns, a plugin of config.plugins that has a
\* setup hook is not among the plugins getPlugins, the system prompt and
\* the tool list are made from, while the name of one without a hook is;
\* and a plugin with a setup hook comes to be among them only by a step in
\* which the hook of a waiting register call for it resolves.
C36_HookedPluginsVisibleAfterSetup ==
    [][/\ ConstructorReturns =>
             \A k \in 1..Len(rgCtor'.plugins) :
                 IF rgCtor'.plugins[k].setup
                 THEN /\ ~Visible(rgPlugins', rgCtor'.plugins[k])
                      /\ \A i \in 1..Len(RgToLLMTools(rgPlugins')) :
                             RgToLLMTools(rgPlugins')[i].name \notin
                               { EncodeToolName(rgCtor'.plugins[k].name,
                                                rgCtor'.plugins[k].actions[n]) :
                                 n \in 1..Len(rgCtor'.plugins[k].actions) }
                 ELSE RgHas(rgPlugins', rgCtor'.plugins[k].name)
       /\ \A pl \in PluginObjects :
             (pl.setup /\ ~Visible(rgPlugins, pl) /\ Visible(rgPlugins', pl))
                => /\ Visible(rgPending, pl)
                   /\ Len(rgPending') < Len(rgPending)]_vars

\* The constructor has returned for a config of a plugin without hook and
\* one with: the first is registered, the second waits for its hook.
C36_Witness ==
    /\ rgCtor.state = "returned"
    /\ Len(rgCtor.plugins) = 2
    /\ Len(rgPlugins) = 1
    /\ ~rgPlugins[1].setup
    /\ rgPlugins[1] = rgCtor.plugins[1]
    /\ Len(rgPending) = 1
    /\ rgPending[1] = rgCtor.plugins[2]
    /\ rgPending[1].name = <<"e">>

\* chat has rejected with the error llm.chat threw.
ChatRejectedByModel(p) == pc[p] = "thrown" /\ failure[p] = "llm.chat threw"

\* C37: when llm.chat throws, chat rejects with that error and the history
\* of the session stays as it was handed to the call that threw, the user
\* message and the assistant and tool messages of the turn included; the
\* next chat on the session adds its user message after them and hands
\* llm.chat the whole history.
C37_ModelErrorRollsNothingBack ==
    [][\A p \in Callers :
          /\ (pc[p] = "awaitModel" /\ pc'[p] = "thrown")
                => /\ failure'[p] = "llm.chat threw"
                   /\ messages' = messages
                   /\ Len(messages'[sid[p]]) = lenAtCall[p]
                   /\ messages'[sid[p]][lenAtCall[p]].role \in {"user", "tool"}
          /\ (ChatRejectedByModel(p) /\ pc'[p] = "awaitModel" /\ sid'[p] = sid[p])
                => /\ SubSeq(messages'[sid[p]], 1, lenAtCall[p]) = messages[sid[p]]
                   /\ Len(messages[sid[p]]) = lenAtCall[p]
                   /\ lenAtCall'[p] = lenAtCall[p] + 1
                   /\ messages'[sid[p]][lenAtCall'[p]].role = "user"]_vars

\* llm.chat threw on the first call of a turn, and the next chat on the
\* session has handed llm.chat the system message and both user messages.
C37_Witness ==
    \E p \in Callers :
        /\ pc[p] = "awaitModel"
        /\ lenAtCall[p] = 3
        /\ Len(messages[sid[p]]) = 3
        /\ messages[sid[p]][2].role = "user"
        /\ messages[sid[p]][3].role = "user"

\* chat has returned after a response with tool calls: the loop ran out.
EndedStuck(p) == pc[p] = "returned" /\ CarriesToolCalls(response[p])

\* chat has returned after a response without tool calls.
EndedDone(p) == pc[p] = "returned" /\ ~CarriesToolCalls(response[p])

\* C38: when chat has returned the stuck text, no message of the history
\* carries it, and the history ends with the assistant message of the 10th
\* round and one tool message per tool call of that round, in their order;
\* when chat has returned an answer, the last message of the history is an
\* assistant message without tool calls whose content is the text
\* returned.
C38_StuckTextNotAppended ==
    \A p \in Callers :
        LET h == messages[sid[p]]
            tcs == response[p].toolCalls
        IN  /\ EndedStuck(p) =>
                  /\ result[p] = StuckText
                  /\ nRounds[p] = maxIterations
                  /\ \A i \in 1..Len(h) : h[i].content # StuckText
                  /\ Len(h) > Len(tcs)
                  /\ h[Len(h) - Len(tcs)].role = "assistant"
                  /\ h[Len(h) - Len(tcs)].toolCalls = tcs
                  /\ \A k \in 1..Len(tcs) :
                        /\ h[Len(h) - Len(tcs) + k].role = "tool"
                        /\ h[Len(h) - Len(tcs) + k].toolCallId = tcs[k].id
            /\ EndedDone(p) =>
                  /\ h[Len(h)].role = "assistant"
                  /\ ~h[Len(h)].hasToolCalls
                  /\ h[Len(h)].content = result[p]

\* chat has returned the stuck text after 10 rounds, the last of them with
\* two tool calls, and the last two messages of the history are their tool
\* messages.
C38_Witness ==
    \E p \in Callers :
        /\ EndedStuck(p)
        /\ result[p] = StuckText
        /\ nRounds[p] = maxIterations
        /\ Len(response[p].toolCalls) = 2
        /\ messages[sid[p]][Len(messages[sid[p]])].role = "tool"
        /\ messages[sid[p]][Len(messages[sid[p]]) - 1].role = "tool"

\* headers[name], Undefined when the object has no such key.
HeaderValue(headers, name) ==
    IF name \in KeySet(headers) THEN GetKey(headers, name) ELSE Undefined

\* The request of the action itself has gone out.
MainRequestIssued ==
    /\ acPc \in {"fetch", "done"}
    /\ acRequests # <<>>
    /\ (SpotifyHook(acCall) => acRequests[Len(acRequests)].path # <<"/me">>)

\* The calls that differ from this one in the parameters passed alone.
SameButParams(call) ==
    { c \in ActionCalls : /\ c.manifest = call.manifest
                          /\ c.action = call.action
                          /\ c.credentials = call.credentials
                          /\ c.via = call.via }

\* C39: the header the credentials go to has, in the request of an action,
\* the value every call with the same manifest, action and credentials
\* gives it, whatever parameters are passed; unless the action declares an
\* in=header parameter of that very name and the caller passes it, and then
\* the header has the value passed.
C39_AuthHeaderIndependentOfParams ==
    MainRequestIssued =>
        LET sent == HeaderValue(acRequests[Len(acRequests)].headers, AuthHeaderName(acCall))
        IN  IF SuppliesAuthHeader(acCall)
            THEN sent = acCall.params[AuthHeaderName(acCall)]
            ELSE \A c \in SameButParams(acCall) :
                    ~SuppliesAuthHeader(c)
                    => HeaderValue(MainRequest(c, c.params).headers, AuthHeaderName(c)) = sent

\* A bearer manifest with credentials was called through the plugin with
\* an Authorization parameter: the request carries the value passed, not
\* the token.
C39_Witness ==
    /\ MainRequestIssued
    /\ acCall.via = "createAction"
    /\ acCall.manifest.auth = "bearer"
    /\ acCall.credentials.token = "tok"
    /\ SuppliesAuthHeader(acCall)
    /\ HeaderValue(acRequests[1].headers, "Authorization") = "a b"
====
